---- MODULE Spec2Model ----
(***************************************************************************)
(* The page-render / merge pipeline of the secure PDF backend.             *)
(*                                                                         *)
(* POST /assign-job creates one DocumentJobs record and one render task    *)
(* per page on outputPdfQueue.  Render worker processes take the tasks,    *)
(* render one page each, store it in S3 and record it on the job with one  *)
(* findByIdAndUpdate.  The worker that sees completedPages >= totalPages   *)
(* adds a task to mergePdfQueue.  The single merge worker sorts the page   *)
(* artifacts, concatenates them, stores the result, creates the Document   *)
(* and the DocumentAccess and completes the job.  GET /assigned re-adds a  *)
(* merge task for jobs whose pages are all rendered (self-heal).           *)
(*                                                                         *)
(* Every await of a handler is a point where the other processes may run,  *)
(* so a handler is a chain of actions, one per await that touches shared   *)
(* state.  A Mongoose save() writes only the paths whose value was changed *)
(* on the in-memory document, so each process keeps the status and stage   *)
(* of the document it loaded.                                              *)
(***************************************************************************)
EXTENDS Integers, Sequences, FiniteSets, TLC

\* Largest number of layout pages of a job.
MaxPages == 2
\* How many times in all the queue broker may hand an active task out again
\* (BullMQ moves a task whose lock expired back to the wait list).
MaxStalls == 1
\* Largest number of tasks ever added to mergePdfQueue (the queue keeps its
\* finished tasks); an add beyond it is not explored.
MaxMergeTasks == 2
\* Largest number of items on a layout page given to the asset resolver.
MaxItems == 3

\* The accounts the application starts with (by e-mail).
Users == {"u1", "u2"}
\* The accounts jobs are assigned to; the other account only lists.
Owners == {"u1"}
JobIds == {"job1"}
\* The render worker processes forked by the cluster primary.
RenderWorkers == {1, 2}
Quotas == {2}
\* The e-mails and quotas a request may carry: those of the accounts jobs
\* are assigned to, an e-mail no account has, and a missing quota.
Emails == Owners \cup {"nobody"}
RequestQuotas == Quotas \cup {0}
AdminUser == "admin"

VARIABLES
    DocumentJobs,     \* job id -> job record (the DocumentJobs collection)
    outputPdfQueue,   \* <<job id, page index>> -> render task (keyed by jobId option)
    mergePdfQueue,    \* sequence of merge tasks (auto-numbered, no jobId option)
    s3objects,        \* key -> stored blob (a sequence of rendered pages)
    Documents,        \* _id -> Document record
    DocumentAccess,   \* set of access grants
    renderWorker,     \* render worker process -> its position and locals
    mergeWorker,      \* the merge worker's position and locals
    assignJob,        \* the POST /assign-job request in progress
    assigned,         \* the GET /assigned request in progress
    stalls,           \* tasks handed out again so far
    User,             \* the accounts, by e-mail (the User collection)
    resolver,         \* a call of resolveS3ImagesToDataUrls: position and locals
    securePrint,      \* the POST /secure-print requests in progress
    series,           \* the POST /series/generate request in progress
    generate          \* the POST /generate-output-pdf requests in progress

vars == <<DocumentJobs, outputPdfQueue, mergePdfQueue, s3objects, Documents,
          DocumentAccess, renderWorker, mergeWorker, assignJob, assigned, stalls,
          User, resolver, securePrint, series, generate>>

----------------------------------------------------------------------------
\* Helpers

Pages(n) == 0 .. (n - 1)

\* Keys and ids made at run time (crypto.randomUUID, ObjectId) are fresh; a
\* fresh value is named after the task execution that makes it, which runs
\* the statement once.
FreshId(prefix, jobId, n, att) ==
    [prefix |-> prefix, jobId |-> jobId, n |-> n, att |-> att]

None == FreshId("none", "none", 0, 0)

IdleRender ==
    [pc |-> "idle", jobId |-> "none", pageIndex |-> 0, att |-> 0,
     status |-> "none", stage |-> "none"]

IdleMerge ==
    [pc |-> "idle", task |-> 0, att |-> 0, jobId |-> "none",
     status |-> "none", stage |-> "none", pageArtifacts |-> <<>>]

IdleAssignJob == [pc |-> "idle", jobId |-> "none", pending |-> {}, failed |-> FALSE]

\* The HTTP status codes of the answers that refuse a request, and the
\* value that stands for a request that passed validation.
BadRequest == 400
NotFound == 404
ServerError == 500
Ok == 200
Created == 201
Accepted == 0

IdleAssigned ==
    [pc |-> "idle", user |-> "none", jobs |-> <<>>, docs |-> <<>>, accesses |-> {}]

\* A lookup that finds an account for every e-mail.
findAnyUser(email) == email = email

\* start and end are Number(startNumber) and Number(endNumber), n the loop
\* variable, pages the text item of every page pushed so far.
IdleSeries ==
    [pc |-> "idle", start |-> 0, end |-> 0, n |-> 0, pages |-> <<>>, code |-> 0]

\* The POST /generate-output-pdf requests that may be in progress at once.
GenerateRequests == {1, 2}

\* calls counts the calls of generateOutputPdfBuffer of the request.
\* isTargetClosed is the local of the catch block entered last.
IdleGenerate ==
    [pc |-> "idle", user |-> "none", hasRetried |-> FALSE, isTargetClosed |-> FALSE,
     calls |-> 0, code |-> 0]

\* The POST /secure-print requests that may be in progress at once.
PrintRequests == {1, 2}

\* access is the grant document the handler holds, found its usedPrints as
\* findOne returned it, code the HTTP status of the answer.
IdleSecurePrint == [pc |-> "idle", access |-> None, found |-> 0, code |-> 0]

\* The blob keys the items of a page may refer to.
S3Keys == {"a", "b"}

\* sent counts the GetObjectCommands the call has sent, by key.
IdleResolver ==
    [pc |-> "idle", layoutPages |-> <<>>, keysToFetch |-> {}, cache |-> <<>>,
     pages |-> <<>>, sent |-> [key \in S3Keys |-> 0]]

\* User.findOne({ email })
findUser(email) == email \in User

\* uploadToS3: the blob is stored under the fresh key.
uploadToS3(objects, key, body) == (key :> body) @@ objects

\* An add that ignores the key: the task is queued once more.
addAgain(queue, key) ==
    (key :> [state |-> "waiting", att |-> 0]) @@ queue

\* Queue.add with a jobId option: a task whose key is already known to the
\* queue is not added again.
addKeyed(queue, key) ==
    IF key \in DOMAIN queue
    THEN queue
    ELSE (key :> [state |-> "waiting", att |-> 0]) @@ queue

\* Queue.add without a jobId option: every call makes a new task.
mergeAdd(queue, jobId) ==
    Append(queue, [jobId |-> jobId, state |-> "waiting", att |-> 0])

\* A task dropped by its processor is reported as failed.
failTask(queue, key, att) ==
    [queue EXCEPT ![key].state = "failed", ![key].att = att]

\* if (!targetJobDoc) return; and if (!jobDoc) return;  The processor
\* returns normally, so the queue marks the task it has just handed out as
\* completed.
dropTask(queue, key, att) ==
    [queue EXCEPT ![key].state = "completed", ![key].att = att]

\* A worker's result reaches the queue only while it still holds the task's
\* lock: the task is active and was not handed out again since.
settle(queue, key, att, result) ==
    IF queue[key].state = "active" /\ queue[key].att = att
    THEN [queue EXCEPT ![key].state = result]
    ELSE queue

----------------------------------------------------------------------------
Init ==
    /\ DocumentJobs = <<>>
    /\ outputPdfQueue = <<>>
    /\ mergePdfQueue = <<>>
    /\ s3objects = <<>>
    /\ Documents = <<>>
    /\ DocumentAccess = {}
    /\ renderWorker = [w \in RenderWorkers |-> IdleRender]
    /\ mergeWorker = IdleMerge
    /\ assignJob = IdleAssignJob
    /\ assigned = IdleAssigned
    /\ stalls = 0
    /\ User = Users
    /\ resolver = IdleResolver
    /\ securePrint = [r \in PrintRequests |-> IdleSecurePrint]
    /\ series = IdleSeries
    /\ generate = [r \in GenerateRequests |-> IdleGenerate]

----------------------------------------------------------------------------
\* POST /assign-job

\* A job record that takes its page count from the quota (pagesNum).
createJobOfQuota(email, quota, n) ==
    [email |-> email,
     assignedQuota |-> quota,
     status |-> "processing",
     stage |-> "rendering",
     totalPages |-> quota,
     completedPages |-> 0,
     pageArtifacts |-> <<>>,
     outputDocumentId |-> None,
     userId |-> email,
     createdBy |-> AdminUser]

\* The document of DocumentJobs.create({ ... }); pageArtifacts takes the
\* schema's default, an empty array.
createJob(email, quota, n) ==
    [email |-> email,
     assignedQuota |-> quota,
     status |-> "processing",
     stage |-> "rendering",
     totalPages |-> n,
     completedPages |-> 0,
     pageArtifacts |-> <<>>,
     outputDocumentId |-> None,
     userId |-> email,
     createdBy |-> AdminUser]

\* A validation that does not look the owner up.
validateWithoutOwner(email, quota, isArray, n) ==
    IF quota = 0 \/ ~isArray \/ n = 0 THEN BadRequest
    ELSE Accepted

\* The checks before DocumentJobs.create, in the handler's order: a missing
\* field (a quota of 0 is falsy), layoutPages that is not an array or is
\* empty, a quota that is not a positive number, an e-mail no account has.
\* isArray and n stand for layoutPages: whether it is an array, and its
\* length.
validate(email, quota, isArray, n) ==
    IF quota = 0 THEN BadRequest
    ELSE IF ~isArray \/ n = 0 THEN BadRequest
    ELSE IF quota <= 0 THEN BadRequest
    ELSE IF ~findUser(email) THEN NotFound
    ELSE Accepted

\* Validation, User.findOne and DocumentJobs.create.  The _id of the new
\* record is a fresh ObjectId: no record and no task carries it.
AssignJobCreate(j, email, quota, n) ==
    /\ assignJob.pc = "idle"
    /\ j \notin DOMAIN DocumentJobs
    /\ \A t \in DOMAIN outputPdfQueue : t[1] # j
    /\ \A k \in DOMAIN mergePdfQueue : mergePdfQueue[k].jobId # j
    /\ validate(email, quota, TRUE, n) = Accepted
    /\ DocumentJobs' = (j :> createJob(email, quota, n)) @@ DocumentJobs
    /\ assignJob' = [pc |-> "enqueue", jobId |-> j, pending |-> Pages(n),
                     failed |-> FALSE]
    /\ UNCHANGED <<outputPdfQueue, mergePdfQueue, s3objects, Documents,
                   DocumentAccess, renderWorker, mergeWorker, assigned, stalls, User,
                   resolver, securePrint, series, generate>>

\* One outputPdfQueue.add of the Promise.all, keyed `${baseJobId}:page:${index}`.
\* The handler has answered (201, or 500 after a rejected add) and is over
\* when every add has settled.
AssignJobEnqueue(i) ==
    /\ assignJob.pc = "enqueue"
    /\ i \in assignJob.pending
    /\ outputPdfQueue' = addKeyed(outputPdfQueue, <<assignJob.jobId, i>>)
    /\ assignJob' = IF assignJob.pending = {i}
                    THEN IdleAssignJob
                    ELSE [assignJob EXCEPT !.pending = @ \ {i}]
    /\ UNCHANGED <<DocumentJobs, mergePdfQueue, s3objects, Documents,
                   DocumentAccess, renderWorker, mergeWorker, assigned, stalls, User,
                   resolver, securePrint, series, generate>>

\* One outputPdfQueue.add rejects (the queue's Redis is unreachable):
\* Promise.all rejects, the catch block answers 500; the job record stays and
\* the other adds go on.
AssignJobEnqueueThrow(i) ==
    /\ assignJob.pc = "enqueue"
    /\ i \in assignJob.pending
    /\ assignJob' = IF assignJob.pending = {i}
                    THEN IdleAssignJob
                    ELSE [assignJob EXCEPT !.pending = @ \ {i}, !.failed = TRUE]
    /\ UNCHANGED <<DocumentJobs, outputPdfQueue, mergePdfQueue, s3objects, Documents,
                   DocumentAccess, renderWorker, mergeWorker, assigned, stalls, User,
                   resolver, securePrint, series, generate>>

\* The request does not pass validation: res.status(400) or res.status(404),
\* and the handler returns before DocumentJobs.create.
AssignJobReject(email, quota, isArray, n) ==
    /\ assignJob.pc = "idle"
    /\ validate(email, quota, isArray, n) # Accepted
    /\ assignJob' = [pc |-> "rejected", jobId |-> "none", pending |-> {},
                     failed |-> TRUE, code |-> validate(email, quota, isArray, n)]
    /\ UNCHANGED <<DocumentJobs, outputPdfQueue, mergePdfQueue, s3objects, Documents,
                   DocumentAccess, renderWorker, mergeWorker, assigned, stalls, User,
                   resolver, securePrint, series, generate>>

\* The refused request is over.
AssignJobRejected ==
    /\ assignJob.pc = "rejected"
    /\ assignJob' = IdleAssignJob
    /\ UNCHANGED <<DocumentJobs, outputPdfQueue, mergePdfQueue, s3objects, Documents,
                   DocumentAccess, renderWorker, mergeWorker, assigned, stalls, User,
                   resolver, securePrint, series, generate>>

----------------------------------------------------------------------------
\* Render worker (one task at a time per process)

\* The worker takes a waiting task; DocumentJobs.findById.  A task without a
\* job record is dropped.
RenderTake(w, j, i) ==
    /\ renderWorker[w].pc = "idle"
    \* idle processes are interchangeable: the first idle one gets the task
    /\ \A v \in RenderWorkers : renderWorker[v].pc = "idle" => w <= v
    /\ <<j, i>> \in DOMAIN outputPdfQueue
    /\ outputPdfQueue[<<j, i>>].state = "waiting"
    /\ LET att == outputPdfQueue[<<j, i>>].att + 1 IN
       IF j \in DOMAIN DocumentJobs
       THEN /\ outputPdfQueue' =
                 [outputPdfQueue EXCEPT ![<<j, i>>] = [state |-> "active", att |-> att]]
            /\ renderWorker' =
                 [renderWorker EXCEPT ![w] =
                     [pc |-> "save", jobId |-> j, pageIndex |-> i, att |-> att,
                      status |-> DocumentJobs[j].status,
                      stage |-> DocumentJobs[j].stage]]
       ELSE /\ outputPdfQueue' = dropTask(outputPdfQueue, <<j, i>>, att)
            /\ UNCHANGED renderWorker
    /\ UNCHANGED <<DocumentJobs, mergePdfQueue, s3objects, Documents,
                   DocumentAccess, mergeWorker, assignJob, assigned, stalls, User,
                   resolver, securePrint, series, generate>>

\* targetJobDoc.status = 'processing'; targetJobDoc.stage = 'rendering'; save()
\* The in-memory document is now processing/rendering, whatever was loaded.
RenderMarkRendering(w) ==
    LET me == renderWorker[w] IN
    /\ me.pc = "save"
    /\ DocumentJobs' =
          [DocumentJobs EXCEPT
             ![me.jobId].status = IF me.status # "processing" THEN "processing" ELSE @,
             ![me.jobId].stage  = IF me.stage # "rendering" THEN "rendering" ELSE @]
    /\ renderWorker' = [renderWorker EXCEPT ![w].pc = "render",
                                            ![w].status = "none",
                                            ![w].stage = "none"]
    /\ UNCHANGED <<outputPdfQueue, mergePdfQueue, s3objects, Documents,
                   DocumentAccess, mergeWorker, assignJob, assigned, stalls, User,
                   resolver, securePrint, series, generate>>

\* A completion test that forgets the page count.
anyPageRendered(updated) == updated.totalPages > 0

\* if (updated.completedPages >= updated.totalPages && updated.totalPages > 0)
allPagesRendered(updated) ==
    updated.completedPages >= updated.totalPages /\ updated.totalPages > 0

\* An update that sets pageArtifacts to the new artifact instead of pushing
\* it.
recordPageReplacing(job, key, pageIndex, userId) ==
    [job EXCEPT !.completedPages = @ + 1,
                !.pageArtifacts = <<[key |-> key, pageIndex |-> pageIndex]>>,
                !.status = "processing",
                !.stage = "rendering",
                !.userId = userId]

\* An update that counts the page and leaves the append to a later call.
recordPageCountOnly(job, key, pageIndex, userId) ==
    [job EXCEPT !.completedPages = @ + 1,
                !.status = "processing",
                !.stage = "rendering",
                !.userId = userId]

\* DocumentJobs.findByIdAndUpdate(jobId, { $inc, $push, $set }, { new: true })
recordPage(job, key, pageIndex, userId) ==
    [job EXCEPT !.completedPages = @ + 1,
                !.pageArtifacts = Append(@, [key |-> key, pageIndex |-> pageIndex]),
                !.status = "processing",
                !.stage = "rendering",
                !.userId = userId]

\* User.findOne; then the page is resolved, rendered and uploaded under a
\* fresh key (nothing another process reads before it is recorded), and the
\* job is updated with findByIdAndUpdate; the returned document decides
\* whether the merge is enqueued.  An unknown owner marks the job failed and
\* fails the task.
RenderRecord(w) ==
    LET me == renderWorker[w]
        key == FreshId("generated/pages/", me.jobId, me.pageIndex, me.att)
        updated == recordPage(DocumentJobs[me.jobId], key, me.pageIndex,
                              DocumentJobs[me.jobId].email)
    IN
    /\ me.pc = "render"
    /\ IF ~findUser(DocumentJobs[me.jobId].email)
       THEN /\ DocumentJobs' = [DocumentJobs EXCEPT ![me.jobId].status = "failed",
                                                    ![me.jobId].stage = "failed"]
            /\ outputPdfQueue' =
                 settle(outputPdfQueue, <<me.jobId, me.pageIndex>>, me.att, "failed")
            /\ renderWorker' = [renderWorker EXCEPT ![w] = IdleRender]
            /\ UNCHANGED s3objects
       ELSE /\ s3objects' = uploadToS3(s3objects, key,
                                       <<[jobId |-> me.jobId, page |-> me.pageIndex]>>)
            /\ DocumentJobs' = [DocumentJobs EXCEPT ![me.jobId] = updated]
            /\ IF allPagesRendered(updated)
               THEN /\ renderWorker' = [renderWorker EXCEPT ![w].pc = "enqueue"]
                    /\ UNCHANGED outputPdfQueue
               ELSE /\ outputPdfQueue' =
                         settle(outputPdfQueue, <<me.jobId, me.pageIndex>>,
                                me.att, "completed")
                    /\ renderWorker' = [renderWorker EXCEPT ![w] = IdleRender]
    /\ UNCHANGED <<mergePdfQueue, Documents, DocumentAccess,
                   mergeWorker, assignJob, assigned, stalls, User,
                   resolver, securePrint, series, generate>>

\* A failing render execution that marks the whole job failed.
RenderThrowFailsJob(w) ==
    LET me == renderWorker[w] IN
    /\ me.pc = "render"
    /\ findUser(DocumentJobs[me.jobId].email)
    /\ DocumentJobs' = [DocumentJobs EXCEPT ![me.jobId].status = "failed",
                                             ![me.jobId].stage = "failed"]
    /\ outputPdfQueue' =
          settle(outputPdfQueue, <<me.jobId, me.pageIndex>>, me.att, "failed")
    /\ renderWorker' = [renderWorker EXCEPT ![w] = IdleRender]
    /\ UNCHANGED <<mergePdfQueue, s3objects, Documents,
                   DocumentAccess, mergeWorker, assignJob, assigned, stalls, User,
                   resolver, securePrint, series, generate>>

\* The asset resolver, the render engine or the blob store throws before the
\* job is updated: the task fails.
RenderThrow(w) ==
    LET me == renderWorker[w] IN
    /\ me.pc = "render"
    /\ findUser(DocumentJobs[me.jobId].email)
    /\ outputPdfQueue' =
          settle(outputPdfQueue, <<me.jobId, me.pageIndex>>, me.att, "failed")
    /\ renderWorker' = [renderWorker EXCEPT ![w] = IdleRender]
    /\ UNCHANGED <<DocumentJobs, mergePdfQueue, s3objects, Documents,
                   DocumentAccess, mergeWorker, assignJob, assigned, stalls, User,
                   resolver, securePrint, series, generate>>

\* mergePdfQueue.add('mergeJob', { jobId, email, assignedQuota, adminUserId })
RenderEnqueueMerge(w) ==
    LET me == renderWorker[w] IN
    /\ me.pc = "enqueue"
    /\ Len(mergePdfQueue) < MaxMergeTasks
    /\ mergePdfQueue' = mergeAdd(mergePdfQueue, me.jobId)
    /\ renderWorker' = [renderWorker EXCEPT ![w].pc = "merging"]
    /\ UNCHANGED <<DocumentJobs, outputPdfQueue, s3objects, Documents,
                   DocumentAccess, mergeWorker, assignJob, assigned, stalls, User,
                   resolver, securePrint, series, generate>>

\* updated.stage = 'merging'; updated.save(); the processor returns.  The
\* document returned by the update has stage 'rendering', so the stage is
\* written.
RenderMarkMerging(w) ==
    LET me == renderWorker[w] IN
    /\ me.pc = "merging"
    /\ DocumentJobs' = [DocumentJobs EXCEPT ![me.jobId].stage = "merging"]
    /\ outputPdfQueue' =
          settle(outputPdfQueue, <<me.jobId, me.pageIndex>>, me.att, "completed")
    /\ renderWorker' = [renderWorker EXCEPT ![w] = IdleRender]
    /\ UNCHANGED <<mergePdfQueue, s3objects, Documents, DocumentAccess,
                   mergeWorker, assignJob, assigned, stalls, User,
                   resolver, securePrint, series, generate>>

\* The broker hands an active render task out again (its lock expired); the
\* process that was running it goes on.
RenderStall(j, i) ==
    /\ stalls < MaxStalls
    /\ <<j, i>> \in DOMAIN outputPdfQueue
    /\ outputPdfQueue[<<j, i>>].state = "active"
    /\ outputPdfQueue' = [outputPdfQueue EXCEPT ![<<j, i>>].state = "waiting"]
    /\ stalls' = stalls + 1
    /\ UNCHANGED <<DocumentJobs, mergePdfQueue, s3objects, Documents,
                   DocumentAccess, renderWorker, mergeWorker, assignJob, assigned, User,
                   resolver, securePrint, series, generate>>

----------------------------------------------------------------------------
\* Merge worker (one process, one task at a time)

\* Array.prototype.sort((a, b) => a.pageIndex - b.pageIndex): a stable sort,
\* written as an insertion sort.
RECURSIVE insertByPageIndex(_, _)
insertByPageIndex(a, sorted) ==
    IF sorted = <<>> THEN <<a>>
    ELSE IF Head(sorted).pageIndex <= a.pageIndex
         THEN <<Head(sorted)>> \o insertByPageIndex(a, Tail(sorted))
         ELSE <<a>> \o sorted

RECURSIVE sortByPageIndex(_)
sortByPageIndex(artifacts) ==
    IF artifacts = <<>> THEN <<>>
    ELSE insertByPageIndex(artifacts[Len(artifacts)],
                           sortByPageIndex(SubSeq(artifacts, 1, Len(artifacts) - 1)))

\* A merge that keeps the artifacts in the order they were appended.
unsortedArtifacts(pageArtifacts) == pageArtifacts

\* sortedArtifacts = [...jobDoc.pageArtifacts].sort(...)
sortedArtifacts(pageArtifacts) == sortByPageIndex(pageArtifacts)

\* PDFDocument.create(), then for every downloaded buffer, in order, load it
\* and copy all of its pages to the end of the merged document.
RECURSIVE mergePdf(_, _)
mergePdf(artifacts, objects) ==
    IF artifacts = <<>> THEN <<>>
    ELSE objects[Head(artifacts).key] \o mergePdf(Tail(artifacts), objects)

\* An upsert that leaves the grant without a session token.
upsertAccessNoToken(accesses, userId, documentId, quota) ==
    LET old == {a \in accesses : a.userId = userId /\ a.documentId = documentId}
    IN (accesses \ old) \cup
       {[userId |-> userId, documentId |-> documentId, assignedQuota |-> quota,
         usedPrints |-> 0, sessionToken |-> None]}

\* DocumentAccess.findOneAndUpdate({ userId, documentId }, {...}, { upsert: true })
\* and the session token given to a grant that has none.
upsertAccess(accesses, userId, documentId, quota) ==
    LET old == {a \in accesses : a.userId = userId /\ a.documentId = documentId}
        token == IF old = {} THEN None ELSE (CHOOSE a \in old : TRUE).sessionToken
    IN (accesses \ old) \cup
       {[userId |-> userId, documentId |-> documentId, assignedQuota |-> quota,
         usedPrints |-> 0,
         sessionToken |-> IF token = None
                          THEN FreshId("sessionToken", documentId.jobId,
                                       documentId.n, documentId.att)
                          ELSE token]}

\* A merge worker that takes the next task while it is still running one
\* (a concurrency above 1).
MergeTakeWhileBusy(k) ==
    /\ k \in DOMAIN mergePdfQueue
    /\ mergePdfQueue[k].state = "waiting"
    /\ mergePdfQueue[k].jobId \in DOMAIN DocumentJobs
    /\ mergePdfQueue' = [mergePdfQueue EXCEPT ![k].state = "active", ![k].att = @ + 1]
    /\ mergeWorker' =
          [pc |-> "save", task |-> k, att |-> mergePdfQueue[k].att + 1,
           jobId |-> mergePdfQueue[k].jobId,
           status |-> DocumentJobs[mergePdfQueue[k].jobId].status,
           stage |-> DocumentJobs[mergePdfQueue[k].jobId].stage,
           pageArtifacts |-> DocumentJobs[mergePdfQueue[k].jobId].pageArtifacts]
    /\ UNCHANGED <<DocumentJobs, outputPdfQueue, s3objects, Documents,
                   DocumentAccess, renderWorker, assignJob, assigned, stalls, User,
                   resolver, securePrint, series, generate>>

\* The worker takes the oldest waiting merge task; DocumentJobs.findById.
\* The cluster forks one merge process and its Worker has concurrency 1: it
\* takes a task only when it runs none.
MergeTake(k) ==
    /\ mergeWorker.pc = "idle"
    /\ k \in DOMAIN mergePdfQueue
    /\ mergePdfQueue[k].state = "waiting"
    /\ \A h \in 1 .. (k - 1) : mergePdfQueue[h].state # "waiting"
    /\ LET att == mergePdfQueue[k].att + 1
           j == mergePdfQueue[k].jobId
       IN
       IF j \in DOMAIN DocumentJobs
       THEN /\ mergePdfQueue' = [mergePdfQueue EXCEPT ![k].state = "active", ![k].att = att]
            /\ mergeWorker' =
                 [pc |-> "save", task |-> k, att |-> att, jobId |-> j,
                  status |-> DocumentJobs[j].status,
                  stage |-> DocumentJobs[j].stage,
                  pageArtifacts |-> DocumentJobs[j].pageArtifacts]
       ELSE /\ mergePdfQueue' = dropTask(mergePdfQueue, k, att)
            /\ UNCHANGED mergeWorker
    /\ UNCHANGED <<DocumentJobs, outputPdfQueue, s3objects, Documents,
                   DocumentAccess, renderWorker, assignJob, assigned, stalls, User,
                   resolver, securePrint, series, generate>>

\* jobDoc.stage = 'merging'; jobDoc.status = 'processing'; save()
MergeMarkMerging ==
    /\ mergeWorker.pc = "save"
    /\ DocumentJobs' =
          [DocumentJobs EXCEPT
             ![mergeWorker.jobId].stage =
                 IF mergeWorker.stage # "merging" THEN "merging" ELSE @,
             ![mergeWorker.jobId].status =
                 IF mergeWorker.status # "processing" THEN "processing" ELSE @]
    /\ mergeWorker' = [mergeWorker EXCEPT !.pc = "merge", !.stage = "none",
                                          !.status = "none"]
    /\ UNCHANGED <<outputPdfQueue, mergePdfQueue, s3objects, Documents,
                   DocumentAccess, renderWorker, assignJob, assigned, stalls, User,
                   resolver, securePrint, series, generate>>

\* User.findOne (an unknown owner marks the job failed and fails the task);
\* then the artifacts of the loaded document are sorted, downloaded and
\* concatenated, the merged bytes uploaded, the Document created and the
\* grant upserted (all under fresh ids no other process reads), and the job
\* is completed:
\* jobDoc.status = 'completed'; jobDoc.stage = 'completed';
\* jobDoc.outputDocumentId = doc._id; jobDoc.userId = user._id; save()
MergeComplete ==
    LET me == mergeWorker
        job == DocumentJobs[me.jobId]
        key == FreshId("generated/output/", me.jobId, me.task, me.att)
        id == FreshId("Document", me.jobId, me.task, me.att)
    IN
    /\ me.pc = "merge"
    /\ IF ~findUser(job.email)
       THEN /\ DocumentJobs' = [DocumentJobs EXCEPT ![me.jobId].stage = "failed",
                                                    ![me.jobId].status = "failed"]
            /\ mergePdfQueue' = settle(mergePdfQueue, me.task, me.att, "failed")
            /\ UNCHANGED <<s3objects, Documents, DocumentAccess>>
       ELSE /\ s3objects' = uploadToS3(s3objects, key,
                               mergePdf(sortedArtifacts(me.pageArtifacts), s3objects))
            /\ Documents' = (id :> [fileKey |-> key,
                                    createdBy |-> AdminUser,
                                    documentType |-> "generated-output"]) @@ Documents
            /\ DocumentAccess' = upsertAccess(DocumentAccess, job.email, id,
                                              job.assignedQuota)
            /\ DocumentJobs' = [DocumentJobs EXCEPT
                                   ![me.jobId].status = "completed",
                                   ![me.jobId].stage = "completed",
                                   ![me.jobId].outputDocumentId = id,
                                   ![me.jobId].userId = job.email]
            /\ mergePdfQueue' = settle(mergePdfQueue, me.task, me.att, "completed")
    /\ mergeWorker' = IdleMerge
    /\ UNCHANGED <<outputPdfQueue, renderWorker, assignJob, assigned, stalls, User,
                   resolver, securePrint, series, generate>>

\* A download, pdf-lib or the upload throws: the task fails.
MergeThrow ==
    /\ mergeWorker.pc = "merge"
    /\ findUser(DocumentJobs[mergeWorker.jobId].email)
    /\ mergePdfQueue' = settle(mergePdfQueue, mergeWorker.task, mergeWorker.att, "failed")
    /\ mergeWorker' = IdleMerge
    /\ UNCHANGED <<DocumentJobs, outputPdfQueue, s3objects, Documents,
                   DocumentAccess, renderWorker, assignJob, assigned, stalls, User,
                   resolver, securePrint, series, generate>>

\* The broker hands an active merge task out again.
MergeStall(k) ==
    /\ stalls < MaxStalls
    /\ k \in DOMAIN mergePdfQueue
    /\ mergePdfQueue[k].state = "active"
    /\ mergePdfQueue' = [mergePdfQueue EXCEPT ![k].state = "waiting"]
    /\ stalls' = stalls + 1
    /\ UNCHANGED <<DocumentJobs, outputPdfQueue, s3objects, Documents,
                   DocumentAccess, renderWorker, mergeWorker, assignJob, assigned, User,
                   resolver, securePrint, series, generate>>

----------------------------------------------------------------------------
\* GET /assigned: the listing and its self-heal pass

\* A self-heal that skips jobs whose counter is exactly the page count.
needsMergeOffByOne(job) ==
    /\ job.totalPages > 0
    /\ job.completedPages > job.totalPages
    /\ job.outputDocumentId = None
    /\ job.status # "completed"
    /\ job.stage # "merging"

\* The condition of the self-heal, on a job document returned by find().
needsMerge(job) ==
    /\ job.totalPages > 0
    /\ job.completedPages >= job.totalPages
    /\ job.outputDocumentId = None
    /\ job.status # "completed"
    /\ job.stage # "merging"

\* A listing that forgets the owner filter.
findAllJobs(user) == DOMAIN DocumentJobs

\* DocumentJobs.find({ userId: req.user._id })
findJobs(user) == {j \in DOMAIN DocumentJobs : DocumentJobs[j].userId = user}

\* A grant lookup that forgets the owner filter.
findAllAccesses(user) == DocumentAccess

\* DocumentAccess.find({ userId: req.user._id })
findAccesses(user) == {a \in DocumentAccess : a.userId = user}

\* The fields of a found job document that the answer is made of.
found(job) ==
    [status |-> job.status, stage |-> job.stage, totalPages |-> job.totalPages,
     completedPages |-> job.completedPages,
     outputDocumentId |-> job.outputDocumentId,
     assignedQuota |-> job.assignedQuota]

\* The two finds and the synchronous start of every callback of jobs.map:
\* the condition is decided on the documents as they were found.  The
\* handler keeps the grants and the job documents it found.
AssignedFind(user) ==
    /\ assigned.pc = "idle"
    /\ assigned' =
          [pc |-> "heal", user |-> user,
           accesses |-> findAccesses(user),
           docs |-> [j \in findJobs(user) |-> found(DocumentJobs[j])],
           jobs |-> [j \in findJobs(user) |->
                       IF needsMerge(DocumentJobs[j])
                       THEN [phase |-> "add",
                             status |-> DocumentJobs[j].status,
                             stage |-> DocumentJobs[j].stage]
                       ELSE [phase |-> "skip", status |-> "none", stage |-> "none"]]]
    /\ UNCHANGED <<DocumentJobs, outputPdfQueue, mergePdfQueue, s3objects, Documents,
                   DocumentAccess, renderWorker, mergeWorker, assignJob, stalls, User,
                   resolver, securePrint, series, generate>>

\* mergePdfQueue.add('mergeJob', { jobId: job._id.toString(), ... })
AssignedEnqueueMerge(j) ==
    /\ assigned.pc = "heal"
    /\ j \in DOMAIN assigned.jobs
    /\ assigned.jobs[j].phase = "add"
    /\ Len(mergePdfQueue) < MaxMergeTasks
    /\ mergePdfQueue' = mergeAdd(mergePdfQueue, j)
    /\ assigned' = [assigned EXCEPT !.jobs[j].phase = "save"]
    /\ UNCHANGED <<DocumentJobs, outputPdfQueue, s3objects, Documents,
                   DocumentAccess, renderWorker, mergeWorker, assignJob, stalls, User,
                   resolver, securePrint, series, generate>>

\* job.stage = 'merging'; job.status = 'processing'; job.save()
AssignedMarkMerging(j) ==
    /\ assigned.pc = "heal"
    /\ j \in DOMAIN assigned.jobs
    /\ assigned.jobs[j].phase = "save"
    /\ DocumentJobs' =
          [DocumentJobs EXCEPT
             ![j].stage = IF assigned.jobs[j].stage # "merging" THEN "merging" ELSE @,
             ![j].status = IF assigned.jobs[j].status # "processing" THEN "processing" ELSE @]
    /\ assigned' = [assigned EXCEPT !.jobs[j] = [phase |-> "done",
                                                 status |-> "none",
                                                 stage |-> "none"],
                                    !.docs[j].stage = "merging",
                                    !.docs[j].status = "processing"]
    /\ UNCHANGED <<outputPdfQueue, mergePdfQueue, s3objects, Documents,
                   DocumentAccess, renderWorker, mergeWorker, assignJob, stalls, User,
                   resolver, securePrint, series, generate>>

\* A set as a sequence, in some order (the finds sort by createdAt, newest
\* first; creation times are not modelled).
RECURSIVE seqOf(_)
seqOf(S) ==
    IF S = {} THEN <<>>
    ELSE LET x == CHOOSE y \in S : TRUE IN <<x>> \o seqOf(S \ {x})

\* The _id of a job record and of a grant.
jobObjectId(j) == FreshId("DocumentJobs", j, 0, 0)
accessObjectId(a) ==
    FreshId("DocumentAccess", a.documentId.jobId, a.documentId.n, a.documentId.att)

\* accessResults: one item per grant found, always with status completed.
\* Every Document of the pipeline is titled 'Generated Output'.
accessResult(a) ==
    [id |-> accessObjectId(a),
     documentId |-> a.documentId,
     documentTitle |-> "Generated Output",
     assignedQuota |-> a.assignedQuota,
     usedPrints |-> a.usedPrints,
     remainingPrints |-> a.assignedQuota - a.usedPrints,
     sessionToken |-> a.sessionToken,
     documentType |-> "pdf",
     status |-> "completed"]

\* jobResults: one item per job document kept by the filter.
jobResult(j, doc) ==
    [id |-> jobObjectId(j),
     documentId |-> doc.outputDocumentId,
     documentTitle |-> "Generated Output",
     assignedQuota |-> doc.assignedQuota,
     usedPrints |-> 0,
     remainingPrints |-> None,
     sessionToken |-> None,
     documentType |-> "pdf",
     status |-> doc.status,
     stage |-> doc.stage,
     totalPages |-> doc.totalPages,
     completedPages |-> doc.completedPages]

\* A filter that keeps every job found.
allJobs(docs) == DOMAIN docs

\* activeJobs = jobs.filter((job) => job.status !== 'completed'), on the
\* documents in memory after the self-heal pass.
activeJobs(docs) == {j \in DOMAIN docs : docs[j].status # "completed"}

\* combined = [...jobResults, ...accessResults]
combined(docs, accesses) ==
    LET jobs == seqOf(activeJobs(docs))
        grants == seqOf(accesses)
    IN [p \in 1 .. Len(jobs) |-> jobResult(jobs[p], docs[jobs[p]])]
       \o [p \in 1 .. Len(grants) |-> accessResult(grants[p])]

\* All callbacks are done: res.json(combined(assigned.docs, assigned.accesses)).
AssignedRespond ==
    /\ assigned.pc = "heal"
    /\ \A j \in DOMAIN assigned.jobs : assigned.jobs[j].phase \in {"skip", "done"}
    /\ assigned' = IdleAssigned
    /\ UNCHANGED <<DocumentJobs, outputPdfQueue, mergePdfQueue, s3objects, Documents,
                   DocumentAccess, renderWorker, mergeWorker, assignJob, stalls, User,
                   resolver, securePrint, series, generate>>

----------------------------------------------------------------------------
Next ==
    \/ \E j \in JobIds, e \in Emails, q \in RequestQuotas, n \in 0 .. MaxPages :
          AssignJobCreate(j, e, q, n)
    \/ \E i \in Pages(MaxPages) : AssignJobEnqueue(i)
    \/ \E i \in Pages(MaxPages) : AssignJobEnqueueThrow(i)
    \/ \E w \in RenderWorkers, j \in JobIds, i \in Pages(MaxPages) : RenderTake(w, j, i)
    \/ \E w \in RenderWorkers : RenderMarkRendering(w)
    \/ \E w \in RenderWorkers : RenderRecord(w)
    \/ \E w \in RenderWorkers : RenderThrow(w)
    \/ \E w \in RenderWorkers : RenderEnqueueMerge(w)
    \/ \E w \in RenderWorkers : RenderMarkMerging(w)
    \/ \E j \in JobIds, i \in Pages(MaxPages) : RenderStall(j, i)
    \/ \E k \in 1 .. MaxMergeTasks : MergeTake(k)
    \/ MergeMarkMerging
    \/ MergeComplete
    \/ MergeThrow
    \/ \E k \in 1 .. MaxMergeTasks : MergeStall(k)
    \/ \E u \in Users : AssignedFind(u)
    \/ \E j \in JobIds : AssignedEnqueueMerge(j)
    \/ \E j \in JobIds : AssignedMarkMerging(j)
    \/ AssignedRespond

\* A request that POST /assign-job refuses changes no store and no queue: in
\* Spec it is a stuttering step.  WorkersSpec has it as a step of its own.
Spec == Init /\ [][Next]_vars

\* The pipeline when no external call fails and no task stalls: requests,
\* workers and the listing only.
NextNoFailure ==
    \/ \E j \in JobIds, e \in Emails, q \in RequestQuotas, n \in 0 .. MaxPages :
          AssignJobCreate(j, e, q, n)
    \/ \E i \in Pages(MaxPages) : AssignJobEnqueue(i)
    \/ \E w \in RenderWorkers, j \in JobIds, i \in Pages(MaxPages) : RenderTake(w, j, i)
    \/ \E w \in RenderWorkers : RenderMarkRendering(w)
    \/ \E w \in RenderWorkers : RenderRecord(w)
    \/ \E w \in RenderWorkers : RenderEnqueueMerge(w)
    \/ \E w \in RenderWorkers : RenderMarkMerging(w)
    \/ \E k \in 1 .. MaxMergeTasks : MergeTake(k)
    \/ MergeMarkMerging
    \/ MergeComplete
    \/ \E u \in Users : AssignedFind(u)
    \/ \E j \in JobIds : AssignedEnqueueMerge(j)
    \/ \E j \in JobIds : AssignedMarkMerging(j)
    \/ AssignedRespond

\* A started request handler runs to its end, a waiting task is taken by an
\* idle worker, and a worker finishes the task it took.  Nobody has to send
\* a request.
Fairness ==
    /\ \A i \in Pages(MaxPages) : WF_vars(AssignJobEnqueue(i))
    /\ \A w \in RenderWorkers :
          /\ WF_vars(\E j \in JobIds, i \in Pages(MaxPages) : RenderTake(w, j, i))
          /\ WF_vars(RenderMarkRendering(w))
          /\ WF_vars(RenderRecord(w))
          /\ WF_vars(RenderEnqueueMerge(w))
          /\ WF_vars(RenderMarkMerging(w))
    /\ WF_vars(\E k \in 1 .. MaxMergeTasks : MergeTake(k))
    /\ WF_vars(MergeMarkMerging)
    /\ WF_vars(MergeComplete)
    /\ \A j \in JobIds :
          /\ WF_vars(AssignedEnqueueMerge(j))
          /\ WF_vars(AssignedMarkMerging(j))
    /\ WF_vars(AssignedRespond)

LiveSpec == Init /\ [][NextNoFailure]_vars /\ Fairness

\* Job creation, with the requests it refuses, and the workers alone: every
\* task is delivered once and nobody lists.
NextWorkers ==
    \/ \E j \in JobIds, e \in Emails, q \in RequestQuotas, n \in 0 .. MaxPages :
          AssignJobCreate(j, e, q, n)
    \/ \E e \in Emails, q \in RequestQuotas, a \in BOOLEAN, n \in 0 .. MaxPages :
          AssignJobReject(e, q, a, n)
    \/ AssignJobRejected
    \/ \E i \in Pages(MaxPages) : AssignJobEnqueue(i)
    \/ \E i \in Pages(MaxPages) : AssignJobEnqueueThrow(i)
    \/ \E w \in RenderWorkers, j \in JobIds, i \in Pages(MaxPages) : RenderTake(w, j, i)
    \/ \E w \in RenderWorkers : RenderMarkRendering(w)
    \/ \E w \in RenderWorkers : RenderRecord(w)
    \/ \E w \in RenderWorkers : RenderThrow(w)
    \/ \E w \in RenderWorkers : RenderEnqueueMerge(w)
    \/ \E w \in RenderWorkers : RenderMarkMerging(w)
    \/ \E k \in 1 .. MaxMergeTasks : MergeTake(k)
    \/ MergeMarkMerging
    \/ MergeComplete
    \/ MergeThrow

WorkersSpec == Init /\ [][NextWorkers]_vars

----------------------------------------------------------------------------
\* The collections are shared with the rest of the application

\* A job record is purged (retention is outside the pipeline).  Only a job
\* no request and no worker is working on is purged here: what a running
\* execution does when its record disappears under it is not modelled.
purgeJob(j) ==
    /\ j \in DOMAIN DocumentJobs
    /\ assignJob.jobId # j
    /\ assigned.pc = "idle"
    /\ \A w \in RenderWorkers : renderWorker[w].jobId # j
    /\ mergeWorker.jobId # j
    /\ DocumentJobs' = [h \in DOMAIN DocumentJobs \ {j} |-> DocumentJobs[h]]
    /\ UNCHANGED <<outputPdfQueue, mergePdfQueue, s3objects, Documents,
                   DocumentAccess, renderWorker, mergeWorker, assignJob, assigned,
                   stalls, User,
                   resolver, securePrint, series, generate>>

\* An account is removed.
removeUser(u) ==
    /\ u \in User
    /\ User' = User \ {u}
    /\ UNCHANGED <<DocumentJobs, outputPdfQueue, mergePdfQueue, s3objects, Documents,
                   DocumentAccess, renderWorker, mergeWorker, assignJob, assigned,
                   stalls, resolver, securePrint, series, generate>>

\* Job creation and the workers, while job records are purged and accounts
\* removed.
NextShared ==
    \/ NextWorkers
    \/ \E j \in JobIds : purgeJob(j)
    \/ \E u \in Users : removeUser(u)

SharedSpec == Init /\ [][NextShared]_vars

----------------------------------------------------------------------------
\* The asset resolver: resolveS3ImagesToDataUrls([pageLayout])

\* An src is a scheme and what follows it: 's3://' + key for a blob
\* reference; for a data URL the rest stands for the base64 of the blob.
s3Src(key) == [scheme |-> "s3://", rest |-> key]

\* `data:${contentType};base64,${base64}` of the blob stored under the key.
dataUrl(key) == [scheme |-> "data:image/png;base64,", rest |-> key]

\* What cache.get(key) gives for a key that was not cached.
Undefined == [scheme |-> "undefined", rest |-> ""]

\* The srcs of the items: blob references and an src that is none.
Srcs == {s3Src(key) : key \in S3Keys} \cup {[scheme |-> "https://", rest |-> "c"]}

\* The one-page arguments of the resolver: up to MaxItems items, each with
\* an src and a field of its own.
LayoutPages ==
    {<<[items |-> [p \in DOMAIN f |-> [src |-> f[p], id |-> p]]]>> :
        f \in UNION {[1 .. n -> Srcs] : n \in 0 .. MaxItems}}

\* item && typeof item.src === 'string' && item.src.startsWith('s3://')
isS3(item) == item.src.scheme = "s3://"

\* First pass: the distinct keys of the blob references.
keysOf(layoutPages) ==
    UNION {{layoutPages[p].items[i].src.rest :
               i \in {h \in DOMAIN layoutPages[p].items : isS3(layoutPages[p].items[h])}} :
           p \in DOMAIN layoutPages}

\* An item rebuilt from the cache alone.
rebuildItemFromCacheOnly(item, cache) ==
    IF isS3(item)
    THEN [item EXCEPT !.src = IF item.src.rest \in DOMAIN cache
                              THEN cache[item.src.rest]
                              ELSE Undefined]
    ELSE item

\* Second pass, one item: { ...item, src: dataUrl || item.src } for a blob
\* reference, the item itself otherwise.
rebuildItem(item, cache) ==
    IF isS3(item)
    THEN [item EXCEPT !.src = IF item.src.rest \in DOMAIN cache
                              THEN cache[item.src.rest]
                              ELSE item.src]
    ELSE item

\* Second pass: pages.push({ ...page, items: newItems })
rebuildPages(layoutPages, cache) ==
    [p \in DOMAIN layoutPages |->
        [layoutPages[p] EXCEPT
            !.items = [i \in DOMAIN layoutPages[p].items |->
                          rebuildItem(layoutPages[p].items[i], cache)]]]

\* A call of the resolver with some page.
InitResolver ==
    /\ DocumentJobs = <<>>
    /\ outputPdfQueue = <<>>
    /\ mergePdfQueue = <<>>
    /\ s3objects = <<>>
    /\ Documents = <<>>
    /\ DocumentAccess = {}
    /\ renderWorker = [w \in RenderWorkers |-> IdleRender]
    /\ mergeWorker = IdleMerge
    /\ assignJob = IdleAssignJob
    /\ assigned = IdleAssigned
    /\ stalls = 0
    /\ User = Users
    /\ securePrint = [r \in PrintRequests |-> IdleSecurePrint]
    /\ series = IdleSeries
    /\ generate = [r \in GenerateRequests |-> IdleGenerate]
    /\ resolver \in {[IdleResolver EXCEPT !.pc = "collect", !.layoutPages = pages] :
                        pages \in LayoutPages}

\* First pass: keysToFetch is a Set, so a key referenced by several items
\* is in it once.
ResolveCollect ==
    /\ resolver.pc = "collect"
    /\ resolver' = [resolver EXCEPT !.pc = "fetch",
                                    !.keysToFetch = keysOf(resolver.layoutPages)]
    /\ UNCHANGED <<DocumentJobs, outputPdfQueue, mergePdfQueue, s3objects, Documents,
                   DocumentAccess, renderWorker, mergeWorker, assignJob, assigned,
                   stalls, User, securePrint, series, generate>>

\* A fetch that leaves its key among the keys to fetch.
ResolveFetchKeepsKey(key) ==
    /\ resolver.pc = "fetch"
    /\ key \in resolver.keysToFetch
    /\ resolver.sent[key] < MaxItems
    /\ resolver' = [resolver EXCEPT !.sent[key] = @ + 1,
                                    !.cache = (key :> dataUrl(key)) @@ @]
    /\ UNCHANGED <<DocumentJobs, outputPdfQueue, mergePdfQueue, s3objects, Documents,
                   DocumentAccess, renderWorker, mergeWorker, assignJob, assigned,
                   stalls, User, securePrint, series, generate>>

\* One callback of the Promise.all (one per key of the Set): the blob is
\* fetched and cached as a data URL.
ResolveFetch(key) ==
    /\ resolver.pc = "fetch"
    /\ key \in resolver.keysToFetch
    /\ resolver' = [resolver EXCEPT !.keysToFetch = @ \ {key},
                                    !.sent[key] = @ + 1,
                                    !.cache = (key :> dataUrl(key)) @@ @]
    /\ UNCHANGED <<DocumentJobs, outputPdfQueue, mergePdfQueue, s3objects, Documents,
                   DocumentAccess, renderWorker, mergeWorker, assignJob, assigned,
                   stalls, User, securePrint, series, generate>>

\* One callback of the Promise.all: s3.send or the body stream throws, the
\* catch block logs it and the callback resolves.
ResolveFetchFails(key) ==
    /\ resolver.pc = "fetch"
    /\ key \in resolver.keysToFetch
    /\ resolver' = [resolver EXCEPT !.keysToFetch = @ \ {key},
                                    !.sent[key] = @ + 1]
    /\ UNCHANGED <<DocumentJobs, outputPdfQueue, mergePdfQueue, s3objects, Documents,
                   DocumentAccess, renderWorker, mergeWorker, assignJob, assigned,
                   stalls, User, securePrint, series, generate>>

\* Every callback has resolved: the second pass, and return pages.
ResolveRebuild ==
    /\ resolver.pc = "fetch"
    /\ resolver.keysToFetch = {}
    /\ resolver' = [resolver EXCEPT !.pc = "done",
                                    !.pages = rebuildPages(resolver.layoutPages,
                                                           resolver.cache)]
    /\ UNCHANGED <<DocumentJobs, outputPdfQueue, mergePdfQueue, s3objects, Documents,
                   DocumentAccess, renderWorker, mergeWorker, assignJob, assigned,
                   stalls, User, securePrint, series, generate>>

NextResolver ==
    \/ ResolveCollect
    \/ \E key \in S3Keys : ResolveFetch(key)
    \/ \E key \in S3Keys : ResolveFetchFails(key)
    \/ ResolveRebuild

ResolverSpec == InitResolver /\ [][NextResolver]_vars

----------------------------------------------------------------------------
\* POST /secure-print

\* The session tokens a request may carry: those of the grants the merge
\* worker can make, and one no grant has.
PrintTokens ==
    {FreshId("sessionToken", j, k, 1) : j \in JobIds, k \in 1 .. MaxMergeTasks}
    \cup {FreshId("sessionToken", "nobody", 0, 0)}

\* DocumentAccess.findOne({ sessionToken })
findAccess(token) == {a \in DocumentAccess : a.sessionToken = token}

\* access.save() after access.usedPrints += 1: the new value of the one
\* modified path is set on the stored grant.
saveAccess(accesses, access) ==
    {IF a.userId = access.userId /\ a.documentId = access.documentId
     THEN [a EXCEPT !.usedPrints = access.usedPrints]
     ELSE a : a \in accesses}

\* findOne and populate; no grant answers 404, no print left answers 400.
SecurePrintFind(r, token) ==
    /\ securePrint[r].pc = "idle"
    /\ IF findAccess(token) = {}
       THEN securePrint' = [securePrint EXCEPT ![r] =
                               [IdleSecurePrint EXCEPT !.pc = "done", !.code = NotFound]]
       ELSE LET access == CHOOSE a \in findAccess(token) : TRUE IN
            IF access.assignedQuota - access.usedPrints <= 0
            THEN securePrint' = [securePrint EXCEPT ![r] =
                                    [pc |-> "done", access |-> access,
                                     found |-> access.usedPrints, code |-> BadRequest]]
            ELSE securePrint' = [securePrint EXCEPT ![r] =
                                    [pc |-> "save", access |-> access,
                                     found |-> access.usedPrints, code |-> 0]]
    /\ UNCHANGED <<DocumentJobs, outputPdfQueue, mergePdfQueue, s3objects, Documents,
                   DocumentAccess, renderWorker, mergeWorker, assignJob, assigned,
                   stalls, User, resolver, series, generate>>

\* access.usedPrints += 1; await access.save(); then a populated document
\* that is missing answers 404.
SecurePrintSave(r) ==
    LET me == securePrint[r]
        access == [me.access EXCEPT !.usedPrints = @ + 1]
    IN
    /\ me.pc = "save"
    /\ DocumentAccess' = saveAccess(DocumentAccess, access)
    /\ securePrint' = [securePrint EXCEPT ![r] =
                          IF access.documentId \in DOMAIN Documents
                          THEN [me EXCEPT !.pc = "sign", !.access = access]
                          ELSE [me EXCEPT !.pc = "done", !.access = access,
                                          !.code = NotFound]]
    /\ UNCHANGED <<DocumentJobs, outputPdfQueue, mergePdfQueue, s3objects, Documents,
                   renderWorker, mergeWorker, assignJob, assigned,
                   stalls, User, resolver, series, generate>>

\* getSignedUrl resolves: res.json({ fileUrl, remainingPrints, maxPrints }).
SecurePrintSign(r) ==
    /\ securePrint[r].pc = "sign"
    /\ securePrint' = [securePrint EXCEPT ![r].pc = "done", ![r].code = Ok]
    /\ UNCHANGED <<DocumentJobs, outputPdfQueue, mergePdfQueue, s3objects, Documents,
                   DocumentAccess, renderWorker, mergeWorker, assignJob, assigned,
                   stalls, User, resolver, series, generate>>

\* AWS_S3_BUCKET is not set, or getSignedUrl throws and the catch block
\* answers: 500 either way.
SecurePrintSignFails(r) ==
    /\ securePrint[r].pc = "sign"
    /\ securePrint' = [securePrint EXCEPT ![r].pc = "done", ![r].code = ServerError]
    /\ UNCHANGED <<DocumentJobs, outputPdfQueue, mergePdfQueue, s3objects, Documents,
                   DocumentAccess, renderWorker, mergeWorker, assignJob, assigned,
                   stalls, User, resolver, series, generate>>

\* The request is over.
SecurePrintDone(r) ==
    /\ securePrint[r].pc = "done"
    /\ securePrint' = [securePrint EXCEPT ![r] = IdleSecurePrint]
    /\ UNCHANGED <<DocumentJobs, outputPdfQueue, mergePdfQueue, s3objects, Documents,
                   DocumentAccess, renderWorker, mergeWorker, assignJob, assigned,
                   stalls, User, resolver, series, generate>>

\* The pipeline without failures and without listing, and the print
\* requests of the grants it makes.
NextPrint ==
    \/ \E j \in JobIds, e \in Emails, q \in RequestQuotas, n \in 0 .. MaxPages :
          AssignJobCreate(j, e, q, n)
    \/ \E i \in Pages(MaxPages) : AssignJobEnqueue(i)
    \/ \E w \in RenderWorkers, j \in JobIds, i \in Pages(MaxPages) : RenderTake(w, j, i)
    \/ \E w \in RenderWorkers : RenderMarkRendering(w)
    \/ \E w \in RenderWorkers : RenderRecord(w)
    \/ \E w \in RenderWorkers : RenderEnqueueMerge(w)
    \/ \E w \in RenderWorkers : RenderMarkMerging(w)
    \/ \E k \in 1 .. MaxMergeTasks : MergeTake(k)
    \/ MergeMarkMerging
    \/ MergeComplete
    \/ \E r \in PrintRequests, token \in PrintTokens : SecurePrintFind(r, token)
    \/ \E r \in PrintRequests : SecurePrintSave(r)
    \/ \E r \in PrintRequests : SecurePrintSign(r)
    \/ \E r \in PrintRequests : SecurePrintSignFails(r)
    \/ \E r \in PrintRequests : SecurePrintDone(r)

PrintSpec == Init /\ [][NextPrint]_vars

----------------------------------------------------------------------------
\* POST /series/generate

\* 'Maximum 1000 numbers per batch'
MaxNumbers == 1000

\* The numbers a request may carry as startNumber and endNumber.
SeriesStarts == {0, 1}
SeriesEnds == {0, 1, 2, MaxNumbers, MaxNumbers + 1, MaxNumbers + 2}

\* The checks of the request, in the order of the code; finite says that
\* Number() made finite numbers of both.
validateSeries(hasTemplate, finite, start, end) ==
    IF ~hasTemplate THEN BadRequest
    ELSE IF ~finite THEN BadRequest
    ELSE IF start >= end THEN BadRequest
    ELSE IF end - start > MaxNumbers THEN BadRequest
    ELSE Accepted

\* The request passes the checks: pages = [], n = start.
SeriesAccept(start, end) ==
    /\ series.pc = "idle"
    /\ validateSeries(TRUE, TRUE, start, end) = Accepted
    /\ series' = [pc |-> "build", start |-> start, end |-> end, n |-> start,
                  pages |-> <<>>, code |-> 0]
    /\ UNCHANGED <<DocumentJobs, outputPdfQueue, mergePdfQueue, s3objects, Documents,
                   DocumentAccess, renderWorker, mergeWorker, assignJob, assigned,
                   stalls, User, resolver, securePrint, generate>>

\* One of the checks answers 400.
SeriesReject(hasTemplate, finite, start, end) ==
    /\ series.pc = "idle"
    /\ validateSeries(hasTemplate, finite, start, end) # Accepted
    /\ series' = [IdleSeries EXCEPT !.pc = "done",
                     !.code = validateSeries(hasTemplate, finite, start, end)]
    /\ UNCHANGED <<DocumentJobs, outputPdfQueue, mergePdfQueue, s3objects, Documents,
                   DocumentAccess, renderWorker, mergeWorker, assignJob, assigned,
                   stalls, User, resolver, securePrint, generate>>

\* for (let n = start; n <= end; n++) pages.push(...): one turn of the loop;
\* a page is told by its text item String(n).
SeriesPush ==
    /\ series.pc = "build"
    /\ series.n <= series.end
    /\ series' = [series EXCEPT !.pages = Append(@, series.n), !.n = @ + 1]
    /\ UNCHANGED <<DocumentJobs, outputPdfQueue, mergePdfQueue, s3objects, Documents,
                   DocumentAccess, renderWorker, mergeWorker, assignJob, assigned,
                   stalls, User, resolver, securePrint, generate>>

\* The loop is over and generateOutputPdfBuffer(pages) resolves: res.send.
SeriesRender ==
    /\ series.pc = "build"
    /\ series.n > series.end
    /\ series' = [series EXCEPT !.pc = "done", !.code = Ok]
    /\ UNCHANGED <<DocumentJobs, outputPdfQueue, mergePdfQueue, s3objects, Documents,
                   DocumentAccess, renderWorker, mergeWorker, assignJob, assigned,
                   stalls, User, resolver, securePrint, generate>>

\* generateOutputPdfBuffer(pages) throws: the catch block answers 500.
SeriesRenderFails ==
    /\ series.pc = "build"
    /\ series.n > series.end
    /\ series' = [series EXCEPT !.pc = "done", !.code = ServerError]
    /\ UNCHANGED <<DocumentJobs, outputPdfQueue, mergePdfQueue, s3objects, Documents,
                   DocumentAccess, renderWorker, mergeWorker, assignJob, assigned,
                   stalls, User, resolver, securePrint, generate>>

\* The request is over.
SeriesDone ==
    /\ series.pc = "done"
    /\ series' = IdleSeries
    /\ UNCHANGED <<DocumentJobs, outputPdfQueue, mergePdfQueue, s3objects, Documents,
                   DocumentAccess, renderWorker, mergeWorker, assignJob, assigned,
                   stalls, User, resolver, securePrint, generate>>

NextSeries ==
    \/ \E start \in SeriesStarts, end \in SeriesEnds : SeriesAccept(start, end)
    \/ \E hasTemplate \in BOOLEAN, finite \in BOOLEAN,
          start \in SeriesStarts, end \in SeriesEnds :
          SeriesReject(hasTemplate, finite, start, end)
    \/ SeriesPush
    \/ SeriesRender
    \/ SeriesRenderFails
    \/ SeriesDone

SeriesSpec == Init /\ [][NextSeries]_vars

----------------------------------------------------------------------------
\* POST /generate-output-pdf

\* A retry that forgets it has retried.
retryWhileClosed(isTargetClosed, hasRetried) == isTargetClosed

\* if (isTargetClosed && !hasRetried)
retry(isTargetClosed, hasRetried) == isTargetClosed /\ ~hasRetried

\* The key uploadToS3 assigns to the output of request r, and the _id of its
\* Document.
generatedKey(r) == FreshId("generated/output/", "request", r, 0)
generatedId(r) == FreshId("Document", "request", r, 0)

\* pages is a non-empty array: hasRetried = false and the loop is entered.
\* A request slot uploads once.
GenerateStart(r, u) ==
    /\ generate[r].pc = "idle"
    /\ generatedKey(r) \notin DOMAIN s3objects
    /\ generate' = [generate EXCEPT ![r] =
                       [IdleGenerate EXCEPT !.pc = "render", !.user = u]]
    /\ UNCHANGED <<DocumentJobs, outputPdfQueue, mergePdfQueue, s3objects, Documents,
                   DocumentAccess, renderWorker, mergeWorker, assignJob, assigned,
                   stalls, User, resolver, securePrint, series>>

\* pages is no array or is empty: 400.
GenerateReject(r) ==
    /\ generate[r].pc = "idle"
    /\ generate' = [generate EXCEPT ![r] =
                       [IdleGenerate EXCEPT !.pc = "done", !.code = BadRequest]]
    /\ UNCHANGED <<DocumentJobs, outputPdfQueue, mergePdfQueue, s3objects, Documents,
                   DocumentAccess, renderWorker, mergeWorker, assignJob, assigned,
                   stalls, User, resolver, securePrint, series>>

\* pdfBuffer = await generateOutputPdfBuffer(pages); break
GenerateRender(r) ==
    /\ generate[r].pc = "render"
    /\ generate' = [generate EXCEPT ![r].calls = @ + 1, ![r].pc = "upload"]
    /\ UNCHANGED <<DocumentJobs, outputPdfQueue, mergePdfQueue, s3objects, Documents,
                   DocumentAccess, renderWorker, mergeWorker, assignJob, assigned,
                   stalls, User, resolver, securePrint, series>>

\* generateOutputPdfBuffer throws: the error is a target-closed one or not;
\* continue after hasRetried = true, or throw err to the outer catch: 500.
GenerateRenderFails(r, isTargetClosed) ==
    /\ generate[r].pc = "render"
    /\ generate' = [generate EXCEPT ![r] =
          IF retry(isTargetClosed, @.hasRetried)
          THEN [@ EXCEPT !.calls = @ + 1, !.isTargetClosed = isTargetClosed,
                         !.hasRetried = TRUE]
          ELSE [@ EXCEPT !.calls = @ + 1, !.isTargetClosed = isTargetClosed,
                         !.pc = "done", !.code = ServerError]]
    /\ UNCHANGED <<DocumentJobs, outputPdfQueue, mergePdfQueue, s3objects, Documents,
                   DocumentAccess, renderWorker, mergeWorker, assignJob, assigned,
                   stalls, User, resolver, securePrint, series>>

\* uploadToS3(pdfBuffer, 'application/pdf', 'generated/output/')
GenerateUpload(r) ==
    /\ generate[r].pc = "upload"
    /\ s3objects' = uploadToS3(s3objects, generatedKey(r),
                               <<[jobId |-> "request", page |-> 0]>>)
    /\ generate' = [generate EXCEPT ![r].pc = "create"]
    /\ UNCHANGED <<DocumentJobs, outputPdfQueue, mergePdfQueue, Documents,
                   DocumentAccess, renderWorker, mergeWorker, assignJob, assigned,
                   stalls, User, resolver, securePrint, series>>

\* uploadToS3 throws: 500.
GenerateUploadFails(r) ==
    /\ generate[r].pc = "upload"
    /\ generate' = [generate EXCEPT ![r].pc = "done", ![r].code = ServerError]
    /\ UNCHANGED <<DocumentJobs, outputPdfQueue, mergePdfQueue, s3objects, Documents,
                   DocumentAccess, renderWorker, mergeWorker, assignJob, assigned,
                   stalls, User, resolver, securePrint, series>>

\* Document.create({ fileKey: key, createdBy: req.user._id, ... }); 201.
GenerateCreate(r) ==
    /\ generate[r].pc = "create"
    /\ Documents' = (generatedId(r) :> [fileKey |-> generatedKey(r),
                                        createdBy |-> generate[r].user,
                                        documentType |-> "generated-output"])
                    @@ Documents
    /\ generate' = [generate EXCEPT ![r].pc = "done", ![r].code = Created]
    /\ UNCHANGED <<DocumentJobs, outputPdfQueue, mergePdfQueue, s3objects,
                   DocumentAccess, renderWorker, mergeWorker, assignJob, assigned,
                   stalls, User, resolver, securePrint, series>>

\* Document.create throws: 500; the uploaded blob stays.
GenerateCreateFails(r) ==
    /\ generate[r].pc = "create"
    /\ generate' = [generate EXCEPT ![r].pc = "done", ![r].code = ServerError]
    /\ UNCHANGED <<DocumentJobs, outputPdfQueue, mergePdfQueue, s3objects, Documents,
                   DocumentAccess, renderWorker, mergeWorker, assignJob, assigned,
                   stalls, User, resolver, securePrint, series>>

\* The request is over.
GenerateDone(r) ==
    /\ generate[r].pc = "done"
    /\ generate' = [generate EXCEPT ![r] = IdleGenerate]
    /\ UNCHANGED <<DocumentJobs, outputPdfQueue, mergePdfQueue, s3objects, Documents,
                   DocumentAccess, renderWorker, mergeWorker, assignJob, assigned,
                   stalls, User, resolver, securePrint, series>>

NextGenerate ==
    \/ \E r \in GenerateRequests, u \in Users : GenerateStart(r, u)
    \/ \E r \in GenerateRequests : GenerateReject(r)
    \/ \E r \in GenerateRequests : GenerateRender(r)
    \/ \E r \in GenerateRequests, isTargetClosed \in BOOLEAN :
          GenerateRenderFails(r, isTargetClosed)
    \/ \E r \in GenerateRequests : GenerateUpload(r)
    \/ \E r \in GenerateRequests : GenerateUploadFails(r)
    \/ \E r \in GenerateRequests : GenerateCreate(r)
    \/ \E r \in GenerateRequests : GenerateCreateFails(r)
    \/ \E r \in GenerateRequests : GenerateDone(r)

GenerateSpec == Init /\ [][NextGenerate]_vars

----------------------------------------------------------------------------
\* Properties

\* The merge tasks the merge channel has received for a job (the queue keeps
\* waiting, active and finished tasks).
mergeTasksFor(j) ==
    Cardinality({k \in DOMAIN mergePdfQueue : mergePdfQueue[k].jobId = j})

\* The pages of a stored output document, as page indexes.
outputPages(d) ==
    [p \in DOMAIN s3objects[Documents[d].fileKey] |->
        s3objects[Documents[d].fileKey][p].page]

\* The output documents made for a job.
outputDocumentsOf(j) == {d \in DOMAIN Documents : d.jobId = j}

\* Every render task of the job ran once and returned.
renderedOnce(j) ==
    \A i \in Pages(DocumentJobs[j].totalPages) :
        /\ <<j, i>> \in DOMAIN outputPdfQueue
        /\ outputPdfQueue[<<j, i>>] = [state |-> "completed", att |-> 1]

\* C1: once all N render tasks of a job have succeeded exactly once each,
\* completedPages = N and the merge channel holds exactly one merge task for
\* the job.
C1_OneMergeAfterAllRendered ==
    \A j \in DOMAIN DocumentJobs :
        renderedOnce(j) =>
            /\ DocumentJobs[j].completedPages = DocumentJobs[j].totalPages
            /\ mergeTasksFor(j) = 1

\* C2: a render task delivered again after its first execution is over does
\* not put a second merge task in the merge channel: when the redelivered
\* execution enqueues, the channel then holds at most one task of the job.
C2_RedeliveryAddsNoMerge ==
    [][\A w \in RenderWorkers :
          ( /\ renderWorker[w].pc = "enqueue"
            /\ renderWorker[w].att > 1
            /\ \A v \in RenderWorkers \ {w} :
                   renderWorker[v].pc = "idle"
            /\ renderWorker'[w].pc = "merging" )
          => mergeTasksFor(renderWorker[w].jobId)' <= 1]_vars

\* C3: in every reachable state 0 <= completedPages <= totalPages.
C3_CompletedWithinTotal ==
    \A j \in DOMAIN DocumentJobs :
        /\ 0 <= DocumentJobs[j].completedPages
        /\ DocumentJobs[j].completedPages <= DocumentJobs[j].totalPages

\* C4: the merge channel accepts at most one merge task per job, whatever
\* the interleaving of render workers and listing calls.
C4_AtMostOneMergeTask ==
    \A j \in JobIds : mergeTasksFor(j) <= 1

\* C5: the final document of a completed job has exactly totalPages pages,
\* one for each page index 0..totalPages-1.
C5_OutputHasEachPageOnce ==
    \A j \in DOMAIN DocumentJobs :
        DocumentJobs[j].status = "completed" =>
            LET out == outputPages(DocumentJobs[j].outputDocumentId) IN
            /\ Len(out) = DocumentJobs[j].totalPages
            /\ \A i \in Pages(DocumentJobs[j].totalPages) :
                   Cardinality({p \in DOMAIN out : out[p] = i}) = 1

\* C6: every output document has its pages in ascending pageIndex order,
\* whatever the order in which the render tasks completed; with one artifact
\* per page index the output is page 0, 1, ..., N-1.
C6_MergedInPageOrder ==
    \A d \in DOMAIN Documents :
        LET out == outputPages(d) IN
        /\ \A p, q \in DOMAIN out : p < q => out[p] <= out[q]
        /\ (\A i \in Pages(Len(out)) : \E p \in DOMAIN out : out[p] = i)
               => \A p \in DOMAIN out : out[p] = p - 1

\* C6 witness: the artifacts of a job were appended out of page order and its
\* output document has the pages in page order.
C6_Witness ==
    \E j \in DOMAIN DocumentJobs :
        /\ DocumentJobs[j].status = "completed"
        /\ Len(DocumentJobs[j].pageArtifacts) = 2
        /\ DocumentJobs[j].pageArtifacts[1].pageIndex = 1
        /\ DocumentJobs[j].pageArtifacts[2].pageIndex = 0
        /\ outputPages(DocumentJobs[j].outputDocumentId) = <<0, 1>>

\* C7: a job has stage merging only if its completedPages has reached
\* totalPages (the counter grows by one per update and never shrinks, so it
\* was equal to totalPages before).
C7_MergingOnlyAfterAllPages ==
    \A j \in DOMAIN DocumentJobs :
        DocumentJobs[j].stage = "merging" =>
            /\ DocumentJobs[j].completedPages >= DocumentJobs[j].totalPages
            /\ Len(DocumentJobs[j].pageArtifacts) >= DocumentJobs[j].totalPages

\* C7 witness: a two-page job in stage merging with both pages counted.
C7_Witness ==
    \E j \in DOMAIN DocumentJobs :
        /\ DocumentJobs[j].stage = "merging"
        /\ DocumentJobs[j].totalPages = 2
        /\ DocumentJobs[j].completedPages = 2

\* C8: a job in stage completed has exactly one output document.
C8_OneOutputDocument ==
    \A j \in DOMAIN DocumentJobs :
        DocumentJobs[j].stage = "completed" =>
            Cardinality(outputDocumentsOf(j)) = 1

\* The reconciler's condition as the specification words it.
selfHealCondition(job) ==
    /\ job.totalPages > 0
    /\ job.completedPages >= job.totalPages
    /\ job.stage # "merging"
    /\ job.status # "completed"
    /\ job.outputDocumentId = None

\* C9: a listing that finds a job of the requester with totalPages > 0,
\* completedPages >= totalPages, stage # merging, status # completed and no
\* output document enqueues one merge task for it and sets its stage to
\* merging.
C9_SelfHealEnqueuesAndMarks ==
    [][\A j \in DOMAIN DocumentJobs :
          /\ ( /\ assigned.pc = "idle"
               /\ assigned'.pc = "heal"
               /\ DocumentJobs[j].userId = assigned'.user
               /\ selfHealCondition(DocumentJobs[j]) )
             => /\ j \in DOMAIN assigned'.jobs
                /\ assigned'.jobs[j].phase = "add"
          /\ ( /\ assigned.pc = "heal"
               /\ j \in DOMAIN assigned.jobs
               /\ assigned.jobs[j].phase = "add"
               /\ assigned' # assigned )
             => /\ mergeTasksFor(j)' = mergeTasksFor(j) + 1
                /\ assigned'.jobs[j].phase = "save"
          /\ ( /\ assigned.pc = "heal"
               /\ j \in DOMAIN assigned.jobs
               /\ assigned.jobs[j].phase = "save"
               /\ assigned' # assigned )
             => /\ DocumentJobs'[j].stage = "merging"
                /\ mergeTasksFor(j)' = mergeTasksFor(j)
                /\ assigned'.jobs[j].phase = "done"]_vars

\* C9 witness: a pass has healed a job that had all pages rendered.
C9_Witness ==
    /\ assigned.pc = "heal"
    /\ \E j \in DOMAIN assigned.jobs :
          /\ assigned.jobs[j].phase = "done"
          /\ DocumentJobs[j].completedPages = DocumentJobs[j].totalPages
          /\ DocumentJobs[j].stage = "merging"
          /\ mergeTasksFor(j) = 1

\* C10: a listing changes no job, and enqueues no merge task for a job, that
\* is not the requester's or that fails a conjunct of the condition when the
\* listing finds it.
C10_SelfHealFrame ==
    [][\A j \in DOMAIN DocumentJobs :
          /\ ( /\ assigned.pc = "idle"
               /\ assigned'.pc = "heal"
               /\ \/ DocumentJobs[j].userId # assigned'.user
                  \/ ~selfHealCondition(DocumentJobs[j]) )
             => /\ (j \in DOMAIN assigned'.jobs => assigned'.jobs[j].phase = "skip")
                /\ DocumentJobs'[j] = DocumentJobs[j]
                /\ mergeTasksFor(j)' = mergeTasksFor(j)
          /\ ( /\ assigned.pc = "heal"
               /\ assigned' # assigned
               /\ (j \in DOMAIN assigned.jobs => assigned.jobs[j].phase = "skip") )
             => /\ DocumentJobs'[j] = DocumentJobs[j]
                /\ mergeTasksFor(j)' = mergeTasksFor(j)]_vars

\* C10 witness: a listing by another account is in progress while the job
\* has all pages rendered, is not merging and has no output document.
C10_Witness ==
    /\ assigned.pc = "heal"
    /\ \E j \in DOMAIN DocumentJobs :
          /\ DocumentJobs[j].userId # assigned.user
          /\ j \notin DOMAIN assigned.jobs
          /\ selfHealCondition(DocumentJobs[j])
          /\ mergeTasksFor(j) = 0

\* A merge task of the job is waiting or being executed.
liveMergeTask(j) ==
    \E k \in DOMAIN mergePdfQueue :
        /\ mergePdfQueue[k].jobId = j
        /\ mergePdfQueue[k].state \in {"waiting", "active"}

\* The job has all its pages, no output document, and no merge task that
\* will still run: its merge task was never added, or it is gone.
mergeLost(j) ==
    /\ DocumentJobs[j].totalPages > 0
    /\ DocumentJobs[j].completedPages >= DocumentJobs[j].totalPages
    /\ DocumentJobs[j].outputDocumentId = None
    /\ ~liveMergeTask(j)
    /\ \A w \in RenderWorkers :
          renderWorker[w].jobId = j => renderWorker[w].pc \notin {"enqueue"}

\* C11: a listing by the owner of a job that has all its pages, no output
\* document and no merge task left to run re-arms the merge (the pass goes
\* on to enqueue a merge task for it), also when the stage of the job was
\* already merging.
C11_ListingRearmsLostMerge ==
    [][\A j \in DOMAIN DocumentJobs :
          ( /\ assigned.pc = "idle"
            /\ assigned'.pc = "heal"
            /\ DocumentJobs[j].userId = assigned'.user
            /\ mergeLost(j) )
          => /\ j \in DOMAIN assigned'.jobs
             /\ assigned'.jobs[j].phase = "add"]_vars

\* The owner of the job holds a grant on the job's output document with no
\* print consumed.
ownerGrant(j) ==
    \E a \in DocumentAccess :
        /\ a.userId = DocumentJobs[j].userId
        /\ a.documentId = DocumentJobs[j].outputDocumentId
        /\ a.usedPrints = 0

\* The job is completed and its output document is recorded on it.
jobCompleted(j) ==
    /\ j \in DOMAIN DocumentJobs
    /\ DocumentJobs[j].status = "completed"
    /\ DocumentJobs[j].stage = "completed"
    /\ DocumentJobs[j].outputDocumentId # None

\* C12: with fair scheduling and no failing call, every created job is
\* eventually completed with its output document recorded, exactly one merge
\* task enqueued for it, and a grant of the owner with usedPrints = 0.
C12_EveryJobCompletesOnce ==
    \A j \in JobIds :
        \/ [](j \notin DOMAIN DocumentJobs)
        \/ <>( /\ jobCompleted(j)
               /\ mergeTasksFor(j) = 1
               /\ ownerGrant(j) )

\* The same without the count of merge tasks.
EveryJobCompletes ==
    \A j \in JobIds :
        \/ [](j \notin DOMAIN DocumentJobs)
        \/ <>(jobCompleted(j) /\ ownerGrant(j))

\* The grants the owner of a job holds on output documents of the job.
ownerGrantsOf(j) ==
    {a \in DocumentAccess : /\ a.userId = DocumentJobs[j].userId
                            /\ a.documentId \in outputDocumentsOf(j)}

\* C13: once the only merge task of a job was delivered again and its last
\* execution has returned, the job is completed with one output document
\* and the owner holds one grant on the job's output, as after a single run.
C13_MergeRedeliveryConverges ==
    \A k \in DOMAIN mergePdfQueue :
        LET j == mergePdfQueue[k].jobId IN
        ( /\ mergePdfQueue[k].state = "completed"
          /\ mergePdfQueue[k].att >= 2
          /\ mergeTasksFor(j) = 1
          /\ mergeWorker.pc = "idle" )
        => /\ jobCompleted(j)
           /\ Cardinality(outputDocumentsOf(j)) = 1
           /\ Cardinality(ownerGrantsOf(j)) = 1

\* The owner's grant on the output document recorded on the job: the job's
\* quota, nothing consumed, and a session token.
outputGrant(job, accesses) ==
    \E a \in accesses :
        /\ a.userId = job.userId
        /\ a.documentId = job.outputDocumentId
        /\ a.assignedQuota = job.assignedQuota
        /\ a.usedPrints = 0
        /\ a.sessionToken # None

C15_CountMatchesArtifacts ==
    \A j \in DOMAIN DocumentJobs :
        DocumentJobs[j].completedPages = Len(DocumentJobs[j].pageArtifacts)

\* C15 witness: one page is recorded and another render task of the job is
\* being executed, its page not yet recorded.
C15_Witness ==
    \E j \in DOMAIN DocumentJobs, w \in RenderWorkers :
        /\ DocumentJobs[j].completedPages = 1
        /\ Len(DocumentJobs[j].pageArtifacts) = 1
        /\ renderWorker[w].jobId = j
        /\ renderWorker[w].pc = "render"

\* The page indexes that have an artifact on the job.
renderedPages(job) ==
    {job.pageArtifacts[p].pageIndex : p \in DOMAIN job.pageArtifacts}

\* C16: completedPages counts each page index that rendered once: in every
\* reachable state it is the number of distinct pageIndex values among the
\* page artifacts, however often a render task was executed.
C16_CountsDistinctPages ==
    \A j \in DOMAIN DocumentJobs :
        DocumentJobs[j].completedPages = Cardinality(renderedPages(DocumentJobs[j]))

\* The render workers that have seen the job complete and are about to add
\* its merge task.
observers(j) ==
    {w \in RenderWorkers : renderWorker[w].jobId = j /\ renderWorker[w].pc = "enqueue"}

\* C17: with every render task delivered once and no listing, the workers
\* that complete the last pages of a job add one merge task between them:
\* never more than one worker has seen the completion or added a task, and
\* once every page is recorded one has.
C17_OneWorkerEnqueues ==
    \A j \in DOMAIN DocumentJobs :
        /\ Cardinality(observers(j)) + mergeTasksFor(j) <= 1
        /\ DocumentJobs[j].completedPages >= DocumentJobs[j].totalPages
           => Cardinality(observers(j)) + mergeTasksFor(j) = 1

\* C17 witness: the two pages of a job were recorded by two workers, page 1
\* first, and one merge task was added.
C17_Witness ==
    \E j \in DOMAIN DocumentJobs :
        /\ DocumentJobs[j].totalPages = 2
        /\ Len(DocumentJobs[j].pageArtifacts) = 2
        /\ DocumentJobs[j].pageArtifacts[1].pageIndex = 1
        /\ renderedOnce(j)
        /\ mergeTasksFor(j) = 1

\* C18: a creation with N >= 1 page layouts adds one job record, with
\* totalPages = N, completedPages = 0, no artifact, status processing, stage
\* rendering and no output document.
C18_CreatedJobRecord ==
    [][assignJob.pc = "idle" /\ assignJob'.pc = "enqueue"
       => LET j == assignJob'.jobId
              N == Cardinality(assignJob'.pending)
          IN /\ N >= 1
             /\ DOMAIN DocumentJobs' = DOMAIN DocumentJobs \cup {j}
             /\ j \notin DOMAIN DocumentJobs
             /\ \A h \in DOMAIN DocumentJobs : DocumentJobs'[h] = DocumentJobs[h]
             /\ DocumentJobs'[j].totalPages = N
             /\ DocumentJobs'[j].completedPages = 0
             /\ DocumentJobs'[j].pageArtifacts = <<>>
             /\ DocumentJobs'[j].status = "processing"
             /\ DocumentJobs'[j].stage = "rendering"
             /\ DocumentJobs'[j].outputDocumentId = None]_vars

\* C18 witness: a job of one page was just created, with a quota of two.
C18_Witness ==
    /\ assignJob.pc = "enqueue"
    /\ assignJob.pending = Pages(1)
    /\ DocumentJobs[assignJob.jobId].totalPages = 1
    /\ DocumentJobs[assignJob.jobId].assignedQuota = 2
    /\ DocumentJobs[assignJob.jobId].completedPages = 0

\* The page indexes that have a render task of the job in the render queue.
renderTasksOf(j) ==
    {i \in Pages(MaxPages) : <<j, i>> \in DOMAIN outputPdfQueue}

C20_JobAndTasksTogether ==
    \A j \in JobIds :
        assignJob.jobId # j
        => \/ /\ j \in DOMAIN DocumentJobs
              /\ renderTasksOf(j) = Pages(DocumentJobs[j].totalPages)
           \/ /\ j \notin DOMAIN DocumentJobs
              /\ renderTasksOf(j) = {}

----------------------------------------------------------------------------
\* C21: POST /assign-job refuses a request whose page sequence is empty or
\* is not an array, and a request whose owner e-mail no account has, with an
\* error answer; a refused request creates no job record and no render
\* task: every job record that is created has at least one page and an
\* owner that has an account, and a render task is added only by a request
\* that has created its job record.
C21_InvalidRequestCreatesNothing ==
    [][/\ (assignJob'.pc = "rejected" /\ assignJob.pc # "rejected")
           => /\ assignJob'.code \in {BadRequest, NotFound}
              /\ UNCHANGED <<DocumentJobs, outputPdfQueue>>
       /\ \A j \in DOMAIN DocumentJobs' \ DOMAIN DocumentJobs :
             /\ DocumentJobs'[j].totalPages >= 1
             /\ DocumentJobs'[j].email \in User
       /\ \A t \in DOMAIN outputPdfQueue' \ DOMAIN outputPdfQueue :
             /\ assignJob.pc = "enqueue"
             /\ t[1] \in DOMAIN DocumentJobs]_vars

\* A request for an unknown owner has just been refused with 404, and there
\* is no job record and no render task.
C21_Witness ==
    /\ assignJob.pc = "rejected"
    /\ assignJob.code = NotFound
    /\ DocumentJobs = <<>>
    /\ outputPdfQueue = <<>>

----------------------------------------------------------------------------
\* The states of a task in which its queue has handed it to no worker yet or
\* again.
taken(task) == task.state # "waiting"

\* C22: a render task or a merge task that is taken while its job has no
\* record is dropped: the task has completed (it has not failed and is not
\* handed out again), no worker is busy with it, and the step writes nothing
\* to the job store, to the blob store, to the documents and grants, or to
\* either queue beyond settling that task.  A completed task stays completed.
C22_OrphanTaskIsDropped ==
    [][/\ \A t \in DOMAIN outputPdfQueue :
             (~taken(outputPdfQueue[t]) /\ taken(outputPdfQueue'[t])
              /\ t[1] \notin DOMAIN DocumentJobs)
             => /\ outputPdfQueue'[t].state = "completed"
                /\ outputPdfQueue' = [outputPdfQueue EXCEPT ![t] = outputPdfQueue'[t]]
                /\ UNCHANGED <<DocumentJobs, mergePdfQueue, s3objects, Documents,
                               DocumentAccess, renderWorker, mergeWorker>>
       /\ \A k \in DOMAIN mergePdfQueue :
             (~taken(mergePdfQueue[k]) /\ taken(mergePdfQueue'[k])
              /\ mergePdfQueue[k].jobId \notin DOMAIN DocumentJobs)
             => /\ mergePdfQueue'[k].state = "completed"
                /\ mergePdfQueue' = [mergePdfQueue EXCEPT ![k] = mergePdfQueue'[k]]
                /\ UNCHANGED <<DocumentJobs, outputPdfQueue, s3objects, Documents,
                               DocumentAccess, renderWorker, mergeWorker>>
       /\ \A t \in DOMAIN outputPdfQueue :
             outputPdfQueue[t].state = "completed"
             => outputPdfQueue'[t].state = "completed"
       /\ \A k \in DOMAIN mergePdfQueue :
             mergePdfQueue[k].state = "completed"
             => mergePdfQueue'[k].state = "completed"]_vars

\* The record of a job was purged while its render tasks were waiting; one
\* of them has been taken and dropped: it is completed and no page of the
\* job is in the blob store.
C22_Witness ==
    /\ DocumentJobs = <<>>
    /\ s3objects = <<>>
    /\ \E t \in DOMAIN outputPdfQueue :
          /\ outputPdfQueue[t].state = "completed"
          /\ outputPdfQueue[t].att = 1

\* The same for a merge task whose job was purged before the merge worker
\* took it.
OrphanMergeDropped ==
    /\ DocumentJobs = <<>>
    /\ Documents = <<>>
    /\ \E k \in DOMAIN mergePdfQueue : mergePdfQueue[k].state = "completed"

----------------------------------------------------------------------------
\* What an execution produces besides the job's status and stage: counted
\* pages, page artifacts, the output document reference, blobs, documents,
\* grants and merge tasks.
produced(j) ==
    <<DocumentJobs[j].completedPages, DocumentJobs[j].pageArtifacts,
      DocumentJobs[j].outputDocumentId, s3objects, Documents, DocumentAccess>>

UnknownOwnerFailsMerge ==
    \E j \in DOMAIN DocumentJobs :
       /\ DocumentJobs[j].status = "failed"
       /\ DocumentJobs[j].stage = "failed"
       /\ DocumentJobs[j].outputDocumentId = None
       /\ Documents = <<>>
       /\ \E k \in DOMAIN mergePdfQueue :
             mergePdfQueue[k].jobId = j /\ mergePdfQueue[k].state = "failed"
             /\ DocumentJobs[j].completedPages = DocumentJobs[j].totalPages

----------------------------------------------------------------------------
\* C24: a render execution that fails while it resolves, renders or uploads
\* its page fails only its own task: the job record is left as it is, with
\* its completedPages and pageArtifacts, in status processing and stage
\* rendering; the task is failed; the other render tasks and the other
\* worker processes are not touched, so sibling pages go on to be counted.
C24_PageFailureFailsOnlyItsTask ==
    [][\A w \in RenderWorkers :
          (/\ renderWorker[w].pc = "render"
           /\ renderWorker'[w].pc = "idle"
           /\ DocumentJobs[renderWorker[w].jobId].email \in User
           /\ s3objects' = s3objects)
          => \A t \in {<<renderWorker[w].jobId, renderWorker[w].pageIndex>>} :
                /\ DocumentJobs' = DocumentJobs
                /\ DocumentJobs'[t[1]].status = "processing"
                /\ DocumentJobs'[t[1]].stage = "rendering"
                /\ outputPdfQueue'[t].state = "failed"
                /\ outputPdfQueue' = [outputPdfQueue EXCEPT ![t] = outputPdfQueue'[t]]
                /\ \A v \in RenderWorkers \ {w} : renderWorker'[v] = renderWorker[v]
                /\ UNCHANGED <<mergePdfQueue, Documents, DocumentAccess,
                               mergeWorker>>]_vars

\* The task of one page of a job has failed while a sibling page of the job
\* was rendered and counted.
C24_Witness ==
    \E j \in DOMAIN DocumentJobs :
       /\ DocumentJobs[j].totalPages = 2
       /\ DocumentJobs[j].completedPages = 1
       /\ DocumentJobs[j].status = "processing"
       /\ DocumentJobs[j].stage = "rendering"
       /\ \E t, u \in DOMAIN outputPdfQueue :
             /\ t[1] = j /\ u[1] = j
             /\ outputPdfQueue[t].state = "failed"
             /\ outputPdfQueue[u].state = "completed"
             /\ renderedPages(DocumentJobs[j]) = {u[2]}

----------------------------------------------------------------------------
\* A merge execution ends without having created a Document although the
\* owner has an account: a download, the concatenation, the upload or a
\* store call threw.
mergeFails ==
    /\ mergeWorker.pc = "merge"
    /\ mergeWorker'.pc = "idle"
    /\ DocumentJobs[mergeWorker.jobId].email \in User
    /\ Documents' = Documents

\* The failure leaves the job record as it is, in stage merging and status
\* processing and without output document reference.
MergeFailureKeepsMerging ==
    [][mergeFails
       => \A j \in {mergeWorker.jobId} :
             /\ DocumentJobs' = DocumentJobs
             /\ DocumentJobs'[j].stage = "merging"
             /\ DocumentJobs'[j].status = "processing"
             /\ DocumentJobs'[j].outputDocumentId = None]_vars

\* C25: a merge execution that fails leaves the job in stage merging and
\* status processing without output document reference, and its task is
\* handed back to the queue, which delivers it again.
C25_MergeFailureIsRedelivered ==
    [][mergeFails
       => \A j \in {mergeWorker.jobId} :
             /\ DocumentJobs'[j].stage = "merging"
             /\ DocumentJobs'[j].status = "processing"
             /\ DocumentJobs'[j].outputDocumentId = None
             /\ mergePdfQueue'[mergeWorker.task].state = "waiting"]_vars

----------------------------------------------------------------------------
\* C26: whenever the merge worker has read the pageArtifacts of a job to
\* assemble its output, completedPages of the job has already reached
\* totalPages, and the artifacts it read are at least totalPages many.
C26_MergeReadsAfterAllPages ==
    mergeWorker.pc # "idle"
    => /\ DocumentJobs[mergeWorker.jobId].completedPages
             >= DocumentJobs[mergeWorker.jobId].totalPages
       /\ Len(mergeWorker.pageArtifacts)
             >= DocumentJobs[mergeWorker.jobId].totalPages

\* The merge worker is assembling a job of two pages from the two artifacts
\* it read.
C26_Witness ==
    /\ mergeWorker.pc = "merge"
    /\ DocumentJobs[mergeWorker.jobId].totalPages = 2
    /\ Len(mergeWorker.pageArtifacts) = 2
    /\ renderedPages(DocumentJobs[mergeWorker.jobId]) = Pages(2)

----------------------------------------------------------------------------
\* The merge tasks a worker has been handed and has not settled.
activeMergeTasks == {k \in DOMAIN mergePdfQueue : mergePdfQueue[k].state = "active"}

\* C27: no two merge executions are in progress at the same time: at most
\* one merge task is active, and it is the delivery the merge worker is
\* running; a second merge task of the job waits until the worker is done.
C27_OneMergeAtATime ==
    /\ Cardinality(activeMergeTasks) <= 1
    /\ \A k \in activeMergeTasks :
          /\ mergeWorker.pc # "idle"
          /\ mergeWorker.task = k
          /\ mergeWorker.att = mergePdfQueue[k].att

\* Two merge tasks of one job are in the queue; the merge worker is running
\* one of them and the other waits.
C27_Witness ==
    \E k, h \in DOMAIN mergePdfQueue :
       /\ mergePdfQueue[k].jobId = mergePdfQueue[h].jobId
       /\ mergePdfQueue[k].state = "active"
       /\ mergePdfQueue[h].state = "waiting"
       /\ mergeWorker.pc = "merge"
       /\ mergeWorker.task = k

----------------------------------------------------------------------------
\* The status GET /assigned reports for a job is the status of its record.
reportedStatus(j) == DocumentJobs[j].status

\* C28: once a job is marked failed (stage failed, status failed) it is
\* reported as failed from then on: no later step, of a sibling render task
\* or of any other task of the job, makes it appear as processing again.
C28_FailedStaysFailed ==
    [][\A j \in DOMAIN DocumentJobs \cap DOMAIN DocumentJobs' :
          (DocumentJobs[j].stage = "failed" /\ reportedStatus(j) = "failed")
          => reportedStatus(j)' = "failed"]_vars

----------------------------------------------------------------------------
\* The listing has finished its self-heal pass and is about to answer.
answering ==
    /\ assigned.pc = "heal"
    /\ \A j \in DOMAIN assigned.jobs : assigned.jobs[j].phase \in {"skip", "done"}

\* The positions of the answer whose item has the id.
itemsOf(answer, id) == {p \in DOMAIN answer : answer[p].id = id}

ListingShowsCompletedJobByGrant ==
    /\ answering
    /\ \E j \in DOMAIN assigned.docs : assigned.docs[j].status = "completed"
    /\ Len(combined(assigned.docs, assigned.accesses)) = 1
    /\ combined(assigned.docs, assigned.accesses)[1].status = "completed"

----------------------------------------------------------------------------
----------------------------------------------------------------------------
\* C31: within one call of the resolver a GetObjectCommand is sent at most
\* once for each key, however many items refer to it; in the page returned,
\* all items that refer to a key that was fetched have the same src, the
\* inline content of that key, and every item that is no blob reference is
\* the item that was given.
C31_EachKeyFetchedOnce ==
    /\ \A key \in S3Keys : resolver.sent[key] <= 1
    /\ \A key \in S3Keys \ keysOf(resolver.layoutPages) : resolver.sent[key] = 0
    /\ resolver.pc = "done"
       => \A p \in DOMAIN resolver.layoutPages :
             LET old == resolver.layoutPages[p].items
                 new == resolver.pages[p].items
             IN \A i \in DOMAIN old :
                   /\ ~isS3(old[i]) => new[i] = old[i]
                   /\ (isS3(old[i]) /\ old[i].src.rest \in DOMAIN resolver.cache)
                      => /\ resolver.sent[old[i].src.rest] = 1
                         /\ new[i].src = dataUrl(old[i].src.rest)
                         /\ \A h \in DOMAIN old :
                               old[h].src = old[i].src => new[h].src = new[i].src

\* The resolver has returned a page on which two items refer to the same
\* key and a third is no blob reference: the key was fetched once, both
\* items carry its inline content and the third is unchanged.
C31_Witness ==
    /\ resolver.pc = "done"
    /\ resolver.sent["a"] = 1
    /\ \E i, h, g \in DOMAIN resolver.pages[1].items :
          /\ i # h
          /\ resolver.layoutPages[1].items[i].src = s3Src("a")
          /\ resolver.layoutPages[1].items[h].src = s3Src("a")
          /\ resolver.pages[1].items[i].src = dataUrl("a")
          /\ resolver.pages[1].items[h].src = dataUrl("a")
          /\ ~isS3(resolver.layoutPages[1].items[g])
          /\ resolver.pages[1].items[g] = resolver.layoutPages[1].items[g]

----------------------------------------------------------------------------
\* The three fields that say a job is done.
completion(j) ==
    <<DocumentJobs[j].status, DocumentJobs[j].stage, DocumentJobs[j].outputDocumentId>>

\* C32: once a job has status completed, stage completed and an output
\* document reference, no later step changes any of the three.
C32_CompletedIsFinal ==
    [][\A j \in DOMAIN DocumentJobs :
          (/\ DocumentJobs[j].status = "completed"
           /\ DocumentJobs[j].stage = "completed"
           /\ DocumentJobs[j].outputDocumentId # None)
          => completion(j)' = completion(j)]_vars

----------------------------------------------------------------------------
\* C33: the status and the stage of every job agree: status completed
\* exactly with stage completed, status failed exactly with stage failed,
\* and status processing exactly with stage rendering or merging.
C33_StatusAndStageAgree ==
    \A j \in DOMAIN DocumentJobs :
       /\ DocumentJobs[j].status = "completed" <=> DocumentJobs[j].stage = "completed"
       /\ DocumentJobs[j].status = "failed" <=> DocumentJobs[j].stage = "failed"
       /\ DocumentJobs[j].status = "processing"
             <=> DocumentJobs[j].stage \in {"rendering", "merging"}

----------------------------------------------------------------------------
\* a is an initial part of b.
isPrefix(a, b) == Len(a) <= Len(b) /\ a = SubSeq(b, 1, Len(a))

\* C34: no step changes the totalPages of a job, decreases its
\* completedPages, or removes or alters an entry of its pageArtifacts: the
\* array only grows at its end.
C34_PagesOnlyGrow ==
    [][\A j \in DOMAIN DocumentJobs :
          /\ j \in DOMAIN DocumentJobs'
          /\ DocumentJobs'[j].totalPages = DocumentJobs[j].totalPages
          /\ DocumentJobs'[j].completedPages >= DocumentJobs[j].completedPages
          /\ isPrefix(DocumentJobs[j].pageArtifacts, DocumentJobs'[j].pageArtifacts)]_vars

\* Both pages of a job are recorded, a redelivered page among them, and the
\* listing has re-armed the merge: every kind of writer has written to the
\* record.
C34_Witness ==
    \E j \in DOMAIN DocumentJobs :
       /\ DocumentJobs[j].totalPages = 2
       /\ Len(DocumentJobs[j].pageArtifacts) = 3
       /\ DocumentJobs[j].completedPages = 3
       /\ DocumentJobs[j].status = "completed"
       /\ assigned.pc = "heal"
       /\ j \in DOMAIN assigned.jobs
       /\ assigned.jobs[j].phase = "done"

----------------------------------------------------------------------------
\* The stored grant a request holds a document of.
storedAccess(access) ==
    CHOOSE a \in DocumentAccess :
       a.userId = access.userId /\ a.documentId = access.documentId

\* C35: the usedPrints of a grant never exceeds its assignedQuota, the save
\* of every secure-print request increases the stored usedPrints by exactly
\* one, also when requests for the same grant are in progress together, and
\* a request made when no print is left is refused without changing it.
C35_EachPrintCountsOnce ==
    [][/\ \A a \in DocumentAccess' : a.usedPrints <= a.assignedQuota
       /\ \A r \in PrintRequests :
             /\ (securePrint[r].pc = "save" /\ securePrint'[r].pc # "save")
                => storedAccess(securePrint[r].access)'.usedPrints
                      = storedAccess(securePrint[r].access).usedPrints + 1
             /\ (securePrint[r].pc = "idle" /\ securePrint'[r].pc = "done")
                => DocumentAccess' = DocumentAccess]_vars

\* Never exceeding the quota, taken alone.
UsedPrintsWithinQuota ==
    \A a \in DocumentAccess : a.usedPrints <= a.assignedQuota

\* C36: a secure-print request that ends with an error answer has not
\* increased usedPrints: the stored grant has the usedPrints the request
\* found it with.
C36_ErrorConsumesNoQuota ==
    \A r \in PrintRequests :
       (securePrint[r].pc = "done" /\ securePrint[r].code # Ok
                                   /\ securePrint[r].access # None)
       => storedAccess(securePrint[r].access).usedPrints = securePrint[r].found

----------------------------------------------------------------------------
\* C37: a series request is accepted only when startNumber < endNumber and
\* the batch is within 1000 numbers; the pages built for it are the numbers
\* from startNumber on, one page each in ascending order, up to endNumber
\* when the loop is over, and they are never more than 1000.
C37_BatchWithinMaximum ==
    series.pc = "build"
    => /\ series.start < series.end
       /\ series.pages = [i \in 1 .. (series.n - series.start) |-> series.start + i - 1]
       /\ series.n <= series.end + 1
       /\ Len(series.pages) <= MaxNumbers

\* What the code keeps: at most 1000 numbers after the first.
SeriesWithinMaximumPlusOne ==
    series.pc = "build"
    => /\ series.start < series.end
       /\ series.pages = [i \in 1 .. (series.n - series.start) |-> series.start + i - 1]
       /\ series.n <= series.end + 1
       /\ Len(series.pages) <= MaxNumbers + 1

----------------------------------------------------------------------------
\* C38: a generate-output-pdf request calls the render engine at most twice;
\* a failed call is followed by another call only when it is the first call
\* and its error is a target-closed one; every other failed call ends the
\* request with the error answer, and the step uploads no blob and creates
\* no Document, nor is there one of the request afterwards.
C38_RetriesOnce ==
    [][\A r \in GenerateRequests :
         /\ generate'[r].calls <= 2
         /\ (generate[r].pc = "render" /\ generate'[r].pc = "render"
               /\ generate'[r] # generate[r])
            => /\ generate[r].calls = 0
               /\ generate'[r].calls = 1
               /\ generate'[r].isTargetClosed
         /\ (generate[r].pc = "render" /\ generate'[r].pc # "upload"
               /\ generate'[r] # generate[r]
               /\ (generate[r].calls = 1 \/ ~generate'[r].isTargetClosed))
            => /\ generate'[r].pc = "done"
               /\ generate'[r].code = ServerError
               /\ s3objects' = s3objects
               /\ Documents' = Documents
               /\ generatedKey(r) \notin DOMAIN s3objects'
               /\ generatedId(r) \notin DOMAIN Documents']_vars

\* C38 witness: a request ended by the failure of its second call.
C38_Witness ==
    \E r \in GenerateRequests :
       /\ generate[r].pc = "done"
       /\ generate[r].code = ServerError
       /\ generate[r].hasRetried
       /\ generate[r].calls = 2

====
